---- MODULE Spec2Model ----
(***************************************************************************)
(* Motion-triggered clip capture with balanced sampling.                   *)
(*                                                                         *)
(*   Spec       RealSenseDepthClipCapture.run(): start_streaming, warmup   *)
(*              and capture_continuous (the synchronous pipeline) of       *)
(*              producer/realsense_depth_clip_capture.py                   *)
(*   SpecRepro  two processes constructed with the same arguments and fed  *)
(*              the same clips, side by side (sampling reproducibility)    *)
(*   SpecAsync  main() and save_worker() of                                *)
(*              producer/capture_video_clip_with_depth.py: the capture     *)
(*              loop, the bounded save queue and the background worker     *)
(*   SpecAsyncSignal  SpecAsync with the stop signal delivered at any      *)
(*              point of the capture loop                                  *)
(*   SpecPure   one call of calculate_motion, has_motion or validate_clip  *)
(*              on arguments of a bounded set                              *)
(*   SpecAsyncShutdownFair  SpecAsync with the worker and main's shutdown  *)
(*              steps scheduled                                            *)
(*   SpecReader capture_clip_v4l2 and depth_reader_thread: the capture     *)
(*              loop, the bounded depth queue and the background reader    *)
(*   SpecHeap   the lists and frame objects main(), capture_clip_v4l2 and  *)
(*              save_worker refer to                                       *)
(***************************************************************************)
EXTENDS Integers, Sequences, FiniteSets, TLC

\* ------------------------------------------------------------------ bounds
\* expected_frames = int(clip_duration * fps), scaled down
ExpectedFrames == 3
\* warmup_frames, scaled down
WarmupFrames == 2
\* clips one session of capture_continuous attempts
MaxClips == 2
\* the random source has RngMod states; a sample is state / RngMod
RngMod == 3
\* clips one run of the reproducibility experiment feeds
MaxReproClips == 3
\* the values time.time() returns in capture_clip_v4l2 are 1 .. MaxClock
MaxClock == 11
\* expected_frames of capture_clip_v4l2 = int(duration * fps), scaled down
V4l2ExpectedFrames == 2
\* clips main() captures in the model of its objects
MaxHeapClips == 2
\* values a frame's pixels take in the model of the objects
MaxPixel == 2
\* clips one session of the asynchronous main loop attempts
MaxAsyncClips == 4
\* frames of the longest clip a pure method is called with
PureMaxFrames == 5

\* ------------------------------------------------- configuration (main())
max_frame_misses == 5
motion_threshold == 100
\* motion_pixel_percent = 0.01
MotionPixelPercentNum == 1
MotionPixelPercentDen == 100
\* min_frames_ratio = 0.8
MinFramesRatioNum == 8
MinFramesRatioDen == 10

\* A name that is not bound yet holds Unset, a bound one Some(value).
Unset == << >>
Some(x) == << x >>

\* Depth frames the frame source can deliver: flattened images of two pixels,
\* in millimetres, 0 the "no reading" sentinel.
DepthFrameSet == { <<0, 0>>, <<500, 500>>, <<500, 700>> }
ColorFrameSet == { "bgr" }

\* no_motion_keep_probability is KeepNum / RngMod for KeepNum in this set
KeepProbabilities == 0 .. RngMod

VARIABLES
    \* ---- RealSenseDepthClipCapture
    pc,                          \* position of run()
    no_motion_keep_probability,  \* self.no_motion_keep_probability, in 1/RngMod
    motion_pixel_percent,        \* self.motion_pixel_percent, a fraction
    rng_initial,                 \* history: the generator's state after __init__
    rng,                         \* state of the module-level random generator
    rng_draws,                   \* number of random.random() calls so far
    pipeline_running,            \* rs.pipeline started and not stopped
    pipeline_stops,              \* number of pipeline.stop() calls
    warmup_i,                    \* loop index of warmup_camera
    warmup_timeouts,             \* history: "Warmup frame i timeout" lines printed
    interrupted,                 \* history: KeyboardInterrupt was delivered
    clip_count, motion_clips_saved, no_motion_clips_saved,
    no_motion_clips_skipped, clips_validation_failed,
    depth_frames, color_frames, timestamps,
    frames_received, frame_misses,
    has_motion_result, should_save, reason,
    consecutive_failures,        \* history: failed frame requests in a row
    saves_motion,                \* history: save_clip calls returned, "motion"
    saves_no_motion,             \* history: save_clip calls returned, "no_motion"
    saves_raised,                \* history: save_clip calls that raised
    \* ---- reproducibility experiment
    random_seed, runs, fed,
    \* ---- capture_video_clip_with_depth.main
    main_pc, clip_num, captured, save_queue, unfinished_tasks,
    save_thread_running, worker_pc, worker_clip_num, worker_item,
    submitted, accepted, dropped, writes, log,
    writes_at_stop,              \* history: Len(writes) at the stop signal
    \* ---- one call of a pure method
    call,                        \* the method called
    arg_frames, arg_color, arg_expected,
    ret_calculate_motion, ret_has_motion, ret_validate_clip,
    \* ---- capture_clip_v4l2 and depth_reader_thread
    now,                         \* the latest value time.time() has returned
    depth_queue,                 \* Queue(maxsize=10) of [time, data]
    stop_event,
    reader_pc,
    reader_frame,                \* the reader's depth_frame: frames are numbered
    reader_time,                 \* the time.time() of the reader's last put
    last_put,                    \* history: what the last put_nowait did
    cap_pc,
    frame_count, frame_time, latest_depth, latest_time,
    v4l2_color_frames, v4l2_depth_frames, v4l2_timestamps,
    drained,                     \* history: the entries this iteration drained
    \* ---- the objects main, capture_clip_v4l2 and save_worker refer to
    buffers,                     \* object id -> value: frame arrays and floats
    lists,                       \* list id -> the object ids it holds
    fn_color_frames, fn_depth_frames, fn_timestamps,  \* capture_clip_v4l2's lists
    fn_expected,                 \* its expected_frames
    main_color_frames, main_depth_frames, main_timestamps,  \* main's names
    heap_pc,
    clip_queue,                  \* save_queue, holding references to lists
    worker_clip,                 \* the item save_worker is writing
    frozen                       \* history: queued lists, contents when queued

syncVars == << pc, no_motion_keep_probability, motion_pixel_percent,
               rng_initial, rng,
               rng_draws, pipeline_running, pipeline_stops, warmup_i,
               warmup_timeouts, interrupted, clip_count, motion_clips_saved,
               no_motion_clips_saved, no_motion_clips_skipped,
               clips_validation_failed, depth_frames, color_frames, timestamps,
               frames_received, frame_misses, has_motion_result, should_save,
               reason, consecutive_failures, saves_motion, saves_no_motion,
               saves_raised >>
configVars == << no_motion_keep_probability, motion_pixel_percent, rng_initial >>
rngVars == << rng, rng_draws >>
pipeVars == << pipeline_running, pipeline_stops, warmup_i, warmup_timeouts,
              interrupted >>
statVars == << clip_count, motion_clips_saved, no_motion_clips_saved,
               no_motion_clips_skipped, clips_validation_failed >>
clipVars == << depth_frames, color_frames, timestamps, frames_received,
               frame_misses, consecutive_failures >>
decisionVars == << has_motion_result, should_save, reason >>
saveVars == << saves_motion, saves_no_motion, saves_raised >>
reproVars == << random_seed, runs, fed >>
asyncVars == << main_pc, clip_num, captured, save_queue, unfinished_tasks,
                save_thread_running, worker_pc, worker_clip_num, worker_item,
                submitted, accepted, dropped, writes, log, writes_at_stop >>
pureVars == << call, arg_frames, arg_color, arg_expected, ret_calculate_motion,
              ret_has_motion, ret_validate_clip >>
\* syncVars without the history of the stop signal
syncButInterrupted == << pc, configVars, rngVars, pipeline_running, pipeline_stops,
                        warmup_i, warmup_timeouts, statVars, clipVars,
                        decisionVars, saveVars >>
readerVars == << stop_event, reader_pc, reader_frame, reader_time, last_put >>
loopVars == << cap_pc, frame_count, frame_time, latest_depth, latest_time,
               v4l2_color_frames, v4l2_depth_frames, v4l2_timestamps, drained >>
fnVars == << fn_color_frames, fn_depth_frames, fn_timestamps, fn_expected >>
mainVars == << main_color_frames, main_depth_frames, main_timestamps >>
heapVars == << buffers, lists, fnVars, mainVars, heap_pc, clip_queue,
               worker_clip, frozen >>
v4l2Vars == << now, depth_queue, readerVars, loopVars, heapVars >>
vars == << syncVars, reproVars, asyncVars, pureVars, v4l2Vars >>

\* ------------------------------------------------------------ arithmetic
\* Fractions are pairs <<numerator, denominator>>, denominator > 0.
RatAdd(a, b) == << a[1] * b[2] + b[1] * a[2], a[2] * b[2] >>
RatLess(a, b) == a[1] * b[2] < b[1] * a[2]
RatDivInt(a, n) == << a[1], a[2] * n >>
Abs(x) == IF x < 0 THEN -x ELSE x

RECURSIVE RatSum(_)
RatSum(s) == IF s = << >> THEN << 0, 1 >> ELSE RatAdd(Head(s), RatSum(Tail(s)))

\* ------------------------------------------------------ the random source
\* random.seed(n): the generator's state is a function of the seed alone.
random_seed_state(n) == n % RngMod
\* random.random(): the state advances; the sample is new state / RngMod.
random_advance(s) == (s + 1) % RngMod
random_sample(s) == random_advance(s)

\* ------------------------------------------------------- pure functions
\* A mutant of calculate_motion: only the first frame's sentinel is masked.
calculate_motion_first_frame_mask(depth_frame_1, depth_frame_2) ==
    LET valid_mask == { i \in DOMAIN depth_frame_1 : depth_frame_1[i] > 0 }
        motion_mask == { i \in valid_mask :
                          Abs(depth_frame_2[i] - depth_frame_1[i]) > motion_threshold }
    IN  IF Cardinality(valid_mask) = 0
        THEN << 0, 1 >>
        ELSE << Cardinality(motion_mask), Cardinality(valid_mask) >>

calculate_motion(depth_frame_1, depth_frame_2) ==
    LET valid_mask == { i \in DOMAIN depth_frame_1 :
                          depth_frame_1[i] > 0 /\ depth_frame_2[i] > 0 }
        motion_mask == { i \in valid_mask :
                          Abs(depth_frame_2[i] - depth_frame_1[i]) > motion_threshold }
    IN  IF Cardinality(valid_mask) = 0
        THEN << 0, 1 >>
        ELSE << Cardinality(motion_mask), Cardinality(valid_mask) >>

\* A mutant of has_motion: the average is compared with >=.
has_motion_inclusive(frames) ==
    IF Len(frames) < 2
    THEN << FALSE, << 0, 1 >> >>
    ELSE LET comparisons == Len(frames) - 1
             total_motion == RatSum([ i \in 1 .. comparisons |->
                                        calculate_motion(frames[i], frames[i + 1]) ])
             avg_motion == RatDivInt(total_motion, comparisons)
         IN  << ~ RatLess(avg_motion, motion_pixel_percent), avg_motion >>

\* A mutant of has_motion: the total is divided by the number of frames.
has_motion_mean_over_frames(frames) ==
    IF Len(frames) < 2
    THEN << FALSE, << 0, 1 >> >>
    ELSE LET comparisons == Len(frames) - 1
             total_motion == RatSum([ i \in 1 .. comparisons |->
                                        calculate_motion(frames[i], frames[i + 1]) ])
             avg_motion == RatDivInt(total_motion, Len(frames))
         IN  << RatLess(motion_pixel_percent, avg_motion), avg_motion >>

\* returns <<has_motion, motion_score>>
has_motion(frames) ==
    IF Len(frames) < 2
    THEN << FALSE, << 0, 1 >> >>
    ELSE LET comparisons == Len(frames) - 1
             total_motion == RatSum([ i \in 1 .. comparisons |->
                                        calculate_motion(frames[i], frames[i + 1]) ])
             avg_motion == RatDivInt(total_motion, comparisons)
         IN  << RatLess(motion_pixel_percent, avg_motion), avg_motion >>

\* A mutant of should_save_clip: motion clips are sampled like the others.
should_save_clip_sampled_motion(motion, motion_score, s) ==
    IF random_sample(s) < no_motion_keep_probability
    THEN [ should_save |-> TRUE,
           reason |-> IF motion THEN "motion" ELSE "no_motion_sampled",
           rng |-> random_advance(s), draws |-> 1 ]
    ELSE [ should_save |-> FALSE, reason |-> "no_motion_skipped",
           rng |-> random_advance(s), draws |-> 1 ]

\* A mutant of should_save_clip: the sample is compared with <=.
should_save_clip_inclusive(motion, motion_score, s) ==
    IF motion
    THEN [ should_save |-> TRUE, reason |-> "motion", rng |-> s, draws |-> 0 ]
    ELSE IF random_sample(s) <= no_motion_keep_probability
         THEN [ should_save |-> TRUE, reason |-> "no_motion_sampled",
                rng |-> random_advance(s), draws |-> 1 ]
         ELSE [ should_save |-> FALSE, reason |-> "no_motion_skipped",
                rng |-> random_advance(s), draws |-> 1 ]

\* A mutant of should_save_clip: the sample is drawn before the motion test.
should_save_clip_draws_first(motion, motion_score, s) ==
    IF motion
    THEN [ should_save |-> TRUE, reason |-> "motion",
           rng |-> random_advance(s), draws |-> 1 ]
    ELSE IF random_sample(s) < no_motion_keep_probability
         THEN [ should_save |-> TRUE, reason |-> "no_motion_sampled",
                rng |-> random_advance(s), draws |-> 1 ]
         ELSE [ should_save |-> FALSE, reason |-> "no_motion_skipped",
                rng |-> random_advance(s), draws |-> 1 ]

\* should_save_clip with the generator's state s; rng is the state afterwards
\* and draws the number of samples taken.
should_save_clip(motion, motion_score, s) ==
    IF motion
    THEN [ should_save |-> TRUE, reason |-> "motion", rng |-> s, draws |-> 0 ]
    ELSE IF random_sample(s) < no_motion_keep_probability
         THEN [ should_save |-> TRUE, reason |-> "no_motion_sampled",
                rng |-> random_advance(s), draws |-> 1 ]
         ELSE [ should_save |-> FALSE, reason |-> "no_motion_skipped",
                rng |-> random_advance(s), draws |-> 1 ]

\* fraction of pixels > 0 of one depth frame
valid_ratio(depth_frame) ==
    LET total_pixels == Len(depth_frame)
        valid_pixels == Cardinality({ i \in DOMAIN depth_frame : depth_frame[i] > 0 })
    IN  IF total_pixels > 0 THEN << valid_pixels, total_pixels >> ELSE << 0, 1 >>

\* the third check of validate_clip: average valid-depth coverage below 0.3
low_coverage(depth) ==
    /\ Len(depth) > 0   \* np.mean([]) is nan, and nan < 0.3 is False
    /\ RatLess(RatDivInt(RatSum([ i \in DOMAIN depth |-> valid_ratio(depth[i]) ]),
                         Len(depth)),
               << 3, 10 >>)

\* A mutant of validate_clip: the frame count is compared with <=.
validate_clip_count_inclusive(depth, color, expected) ==
    IF Len(depth) * MinFramesRatioDen <= expected * MinFramesRatioNum
    THEN << FALSE, "Insufficient frames" >>
    ELSE IF Len(depth) # Len(color)
    THEN << FALSE, "Depth and color frame count mismatch" >>
    ELSE IF low_coverage(depth)
    THEN << FALSE, "Insufficient depth coverage" >>
    ELSE << TRUE, "Valid" >>

\* A mutant of validate_clip: the count mismatch is checked first.
validate_clip_mismatch_first(depth, color, expected) ==
    IF Len(depth) # Len(color)
    THEN << FALSE, "Depth and color frame count mismatch" >>
    ELSE IF Len(depth) * MinFramesRatioDen < expected * MinFramesRatioNum
    THEN << FALSE, "Insufficient frames" >>
    ELSE IF low_coverage(depth)
    THEN << FALSE, "Insufficient depth coverage" >>
    ELSE << TRUE, "Valid" >>

\* returns <<is_valid, reason>>
validate_clip(depth, color, expected) ==
    IF Len(depth) * MinFramesRatioDen < expected * MinFramesRatioNum
    THEN << FALSE, "Insufficient frames" >>
    ELSE IF Len(depth) # Len(color)
    THEN << FALSE, "Depth and color frame count mismatch" >>
    ELSE IF low_coverage(depth)
    THEN << FALSE, "Insufficient depth coverage" >>
    ELSE << TRUE, "Valid" >>

\* ------------------------------------------------------------------- Init
InitSync ==
    /\ pc = "constructed"
    /\ rng_initial = rng
    /\ rng_draws = 0
    /\ pipeline_running = FALSE
    /\ pipeline_stops = 0
    /\ warmup_i = 0
    /\ warmup_timeouts = 0
    /\ interrupted = FALSE
    /\ clip_count = 0
    /\ motion_clips_saved = 0
    /\ no_motion_clips_saved = 0
    /\ no_motion_clips_skipped = 0
    /\ clips_validation_failed = 0
    /\ depth_frames = << >>
    /\ color_frames = << >>
    /\ timestamps = << >>
    /\ frames_received = 0
    /\ frame_misses = 0
    /\ has_motion_result = Unset
    /\ should_save = Unset
    /\ reason = Unset
    /\ consecutive_failures = 0
    /\ saves_motion = 0
    /\ saves_no_motion = 0
    /\ saves_raised = 0

InitRepro ==
    /\ random_seed = << >>
    /\ runs = << >>
    /\ fed = << >>

InitAsync ==
    /\ main_pc = "loop"
    /\ clip_num = 0
    /\ captured = Unset
    /\ save_queue = << >>
    /\ unfinished_tasks = 0
    /\ save_thread_running = TRUE
    /\ worker_pc = "check"
    /\ worker_clip_num = 0
    /\ worker_item = Unset
    /\ submitted = << >>
    /\ accepted = << >>
    /\ dropped = { }
    /\ writes = << >>
    /\ log = { }
    /\ writes_at_stop = 0

\* no pure method is being called
InitPure ==
    /\ call = "none"
    /\ arg_frames = << >>
    /\ arg_color = << >>
    /\ arg_expected = 0
    /\ ret_calculate_motion = Unset
    /\ ret_has_motion = Unset
    /\ ret_validate_clip = Unset

\* capture_clip_v4l2 has not been called
InitReader ==
    /\ now = 0
    /\ depth_queue = << >>
    /\ stop_event = FALSE
    /\ reader_pc = "unborn"
    /\ reader_frame = 0
    /\ reader_time = 0
    /\ last_put = "none"
    /\ cap_pc = "call"
    /\ frame_count = 0
    /\ frame_time = 0
    /\ latest_depth = 0
    /\ latest_time = 0
    /\ v4l2_color_frames = << >>
    /\ v4l2_depth_frames = << >>
    /\ v4l2_timestamps = << >>
    /\ drained = << >>

\* the color and the depth capture's frame buffers exist; main() has not
\* captured a clip yet
InitHeap ==
    /\ buffers = << 0, 0 >>
    /\ lists = << >>
    /\ fn_color_frames = 0
    /\ fn_depth_frames = 0
    /\ fn_timestamps = 0
    /\ fn_expected = 0
    /\ main_color_frames = 0
    /\ main_depth_frames = 0
    /\ main_timestamps = 0
    /\ heap_pc = "loop"
    /\ clip_queue = << >>
    /\ worker_clip = Unset
    /\ frozen = { }

InitV4l2 == InitReader /\ InitHeap

\* main(): motion_pixel_percent=0.01
InitConfig ==
    motion_pixel_percent = << MotionPixelPercentNum, MotionPixelPercentDen >>

\* RealSenseDepthClipCapture(...) has been constructed: the generator was
\* seeded by random.seed(random_seed), or from the system's entropy
Init ==
    /\ no_motion_keep_probability \in KeepProbabilities
    /\ rng \in 0 .. RngMod - 1
    /\ InitConfig /\ InitSync /\ InitRepro /\ InitAsync /\ InitPure /\ InitV4l2

\* ------------------------------------------------------- start_streaming
\* pipeline.start succeeds; warmup_camera begins
StartPipeline ==
    /\ pc = "constructed"
    /\ pipeline_running' = TRUE
    /\ warmup_i' = 0
    /\ pc' = IF WarmupFrames > 0 THEN "warmup" ELSE "loop"
    /\ UNCHANGED << pipeline_stops, warmup_timeouts, interrupted, configVars,
                    rngVars, statVars, clipVars,
                    decisionVars, saveVars, reproVars, asyncVars, pureVars, v4l2Vars >>

\* pipeline.start raises: sys.exit(1)
StartPipelineFails ==
    /\ pc = "constructed"
    /\ pc' = "exited"
    /\ UNCHANGED << pipeVars, configVars, rngVars, statVars, clipVars,
                    decisionVars, saveVars, reproVars, asyncVars, pureVars, v4l2Vars >>

\* one iteration of warmup_camera: the frames arrive and are discarded
WarmupFrame ==
    /\ pc = "warmup"
    /\ warmup_i' = warmup_i + 1
    /\ pc' = IF warmup_i + 1 < WarmupFrames THEN "warmup" ELSE "loop"
    /\ UNCHANGED << pipeline_running, pipeline_stops, warmup_timeouts,
                    interrupted, configVars, rngVars,
                    statVars, clipVars, decisionVars, saveVars, reproVars, asyncVars, pureVars, v4l2Vars >>

\* A mutant of WarmupTimeout: the timeout ends the process.
WarmupTimeoutFatal ==
    /\ pc = "warmup"
    /\ warmup_timeouts' = warmup_timeouts + 1
    /\ pc' = "exited"
    /\ UNCHANGED << pipeline_running, pipeline_stops, warmup_i, interrupted,
                    configVars, rngVars, statVars, clipVars, decisionVars,
                    saveVars, reproVars, asyncVars, pureVars, v4l2Vars >>

\* one iteration of warmup_camera: wait_for_frames times out (RuntimeError),
\* the iteration is skipped
WarmupTimeout ==
    /\ pc = "warmup"
    /\ warmup_timeouts' = warmup_timeouts + 1
    /\ warmup_i' = warmup_i + 1
    /\ pc' = IF warmup_i + 1 < WarmupFrames THEN "warmup" ELSE "loop"
    /\ UNCHANGED << pipeline_running, pipeline_stops, interrupted, configVars,
                    rngVars,
                    statVars, clipVars, decisionVars, saveVars, reproVars, asyncVars, pureVars, v4l2Vars >>

\* ---------------------------------------------------- capture_continuous
expected_frames == ExpectedFrames

\* top of `while True`: a new clip attempt, with fresh lists and counters
ClipStart ==
    /\ pc = "loop"
    /\ clip_count < MaxClips
    /\ clip_count' = clip_count + 1
    /\ depth_frames' = << >>
    /\ color_frames' = << >>
    /\ timestamps' = << >>
    /\ frames_received' = 0
    /\ frame_misses' = 0
    /\ consecutive_failures' = 0
    /\ pc' = IF 0 < expected_frames THEN "acquire" ELSE "gate"
    /\ UNCHANGED << motion_clips_saved, no_motion_clips_saved,
                    no_motion_clips_skipped, clips_validation_failed,
                    pipeVars, configVars, rngVars, decisionVars,
                    saveVars, reproVars, asyncVars, pureVars, v4l2Vars >>

\* A mutant of FrameMissed: the miss counter is compared with >=.
FrameMissedEarlyAbort ==
    /\ frame_misses' = frame_misses + 1
    /\ pc' = IF frame_misses + 1 >= max_frame_misses THEN "gate" ELSE "acquire"

\* the miss counter's part of a failed request: count, abort beyond the bound
FrameMissed ==
    /\ frame_misses' = frame_misses + 1
    /\ pc' = IF frame_misses + 1 > max_frame_misses THEN "gate" ELSE "acquire"

\* A mutant of FrameStored: the color image is not stored.
FrameStoredDepthOnly(depth_image_mm, color_image) ==
    /\ frame_misses' = 0
    /\ depth_frames' = Append(depth_frames, depth_image_mm)
    /\ color_frames' = color_frames
    /\ timestamps' = Append(timestamps, frames_received + 1)
    /\ frames_received' = frames_received + 1
    /\ pc' = IF frames_received + 1 < expected_frames THEN "acquire" ELSE "gate"

\* A mutant of FrameStored: the loop runs while frames_received <= expected_frames.
FrameStoredOneMore(depth_image_mm, color_image) ==
    /\ frame_misses' = 0
    /\ depth_frames' = Append(depth_frames, depth_image_mm)
    /\ color_frames' = Append(color_frames, color_image)
    /\ timestamps' = Append(timestamps, frames_received + 1)
    /\ frames_received' = frames_received + 1
    /\ pc' = IF frames_received + 1 <= expected_frames THEN "acquire" ELSE "gate"

\* the loop's part of a successful request: reset the miss counter, store the
\* pair with its arrival stamp, loop while frames_received < expected_frames
FrameStored(depth_image_mm, color_image) ==
    /\ frame_misses' = 0
    /\ depth_frames' = Append(depth_frames, depth_image_mm)
    /\ color_frames' = Append(color_frames, color_image)
    /\ timestamps' = Append(timestamps, frames_received + 1)
    /\ frames_received' = frames_received + 1
    /\ pc' = IF frames_received + 1 < expected_frames THEN "acquire" ELSE "gate"

\* wait_for_frames returns an aligned depth + color pair
AcquireFrame ==
    /\ pc = "acquire"
    /\ \E depth_image_mm \in DepthFrameSet, color_image \in ColorFrameSet :
         FrameStored(depth_image_mm, color_image)
    /\ consecutive_failures' = 0
    /\ UNCHANGED << statVars, pipeVars, configVars, rngVars, decisionVars,
                    saveVars, reproVars, asyncVars, pureVars, v4l2Vars >>

\* the aligned frameset lacks its depth or its color frame
AcquireIncomplete ==
    /\ pc = "acquire"
    /\ FrameMissed
    /\ consecutive_failures' = consecutive_failures + 1
    /\ UNCHANGED << depth_frames, color_frames, timestamps, frames_received,
                    statVars, pipeVars, configVars, rngVars, decisionVars,
                    saveVars, reproVars, asyncVars, pureVars, v4l2Vars >>

\* wait_for_frames raises RuntimeError (timeout)
AcquireTimeout ==
    /\ pc = "acquire"
    /\ FrameMissed
    /\ consecutive_failures' = consecutive_failures + 1
    /\ UNCHANGED << depth_frames, color_frames, timestamps, frames_received,
                    statVars, pipeVars, configVars, rngVars, decisionVars,
                    saveVars, reproVars, asyncVars, pureVars, v4l2Vars >>

\* the post-loop gate's condition
gate_rejects ==
    \/ frame_misses > max_frame_misses
    \/ frames_received * MinFramesRatioDen < expected_frames * MinFramesRatioNum

\* A mutant of PostLoopGate: the gate lets every clip through to validate_clip.
PostLoopGateOpen ==
    /\ pc = "gate"
    /\ pc' = "validate"
    /\ UNCHANGED << statVars, clipVars, pipeVars, configVars, rngVars,
                    decisionVars, saveVars, reproVars, asyncVars, pureVars, v4l2Vars >>

\* A mutant of PostLoopGate: a rejected clip is not counted.
PostLoopGateUncounted ==
    /\ pc = "gate"
    /\ pc' = IF gate_rejects THEN "loop" ELSE "validate"
    /\ UNCHANGED << statVars, clipVars, pipeVars, configVars, rngVars,
                    decisionVars, saveVars, reproVars, asyncVars, pureVars, v4l2Vars >>

\* "Check if we got enough frames"
PostLoopGate ==
    /\ pc = "gate"
    /\ IF gate_rejects
       THEN /\ clips_validation_failed' = clips_validation_failed + 1
            /\ pc' = "loop"
       ELSE /\ pc' = "validate"
            /\ UNCHANGED clips_validation_failed
    /\ UNCHANGED << clip_count, motion_clips_saved, no_motion_clips_saved,
                    no_motion_clips_skipped, clipVars, pipeVars, configVars,
                    rngVars, decisionVars, saveVars, reproVars, asyncVars, pureVars, v4l2Vars >>

\* A mutant of ValidateClip: every clip goes on to has_motion.
ValidateClipPassAll ==
    /\ pc = "validate"
    /\ pc' = "classify"
    /\ UNCHANGED << statVars, clipVars, pipeVars, configVars, rngVars,
                    decisionVars, saveVars, reproVars, asyncVars, pureVars, v4l2Vars >>

\* "Validate clip quality"
ValidateClip ==
    /\ pc = "validate"
    /\ IF validate_clip(depth_frames, color_frames, expected_frames)[1]
       THEN /\ pc' = "classify"
            /\ UNCHANGED clips_validation_failed
       ELSE /\ clips_validation_failed' = clips_validation_failed + 1
            /\ pc' = "loop"
    /\ UNCHANGED << clip_count, motion_clips_saved, no_motion_clips_saved,
                    no_motion_clips_skipped, clipVars, pipeVars, configVars,
                    rngVars, decisionVars, saveVars, reproVars, asyncVars, pureVars, v4l2Vars >>

\* "Check for motion"
CheckMotion ==
    /\ pc = "classify"
    /\ has_motion_result' = Some(has_motion(depth_frames)[1])
    /\ pc' = "sample"
    /\ UNCHANGED << should_save, reason, statVars, clipVars, pipeVars,
                    configVars, rngVars, saveVars, reproVars, asyncVars, pureVars, v4l2Vars >>

\* "Determine if should save", and the skip branch
SampleClip ==
    /\ pc = "sample"
    /\ LET d == should_save_clip(has_motion_result[1], has_motion(depth_frames)[2], rng)
       IN  /\ should_save' = Some(d.should_save)
           /\ reason' = Some(d.reason)
           /\ rng' = d.rng
           /\ rng_draws' = rng_draws + d.draws
           /\ IF d.should_save
              THEN /\ pc' = "save"
                   /\ UNCHANGED no_motion_clips_skipped
              ELSE /\ no_motion_clips_skipped' = no_motion_clips_skipped + 1
                   /\ pc' = "loop"
    /\ UNCHANGED << clip_count, motion_clips_saved, no_motion_clips_saved,
                    clips_validation_failed, has_motion_result, clipVars,
                    pipeVars, configVars, saveVars, reproVars, asyncVars, pureVars, v4l2Vars >>

clip_type == IF reason = Some("motion") THEN "motion" ELSE "no_motion"

\* the history of a save_clip call that returned, by its clip_type argument
save_clip_returns ==
    /\ saves_motion' = saves_motion + (IF clip_type = "motion" THEN 1 ELSE 0)
    /\ saves_no_motion' = saves_no_motion + (IF clip_type = "no_motion" THEN 1 ELSE 0)
    /\ UNCHANGED saves_raised

\* A mutant of SaveClip: both saved counters are incremented.
SaveClipCountsBoth ==
    /\ pc = "save"
    /\ save_clip_returns
    /\ motion_clips_saved' = motion_clips_saved + 1
    /\ no_motion_clips_saved' = no_motion_clips_saved + 1
    /\ pc' = "loop"
    /\ UNCHANGED << clip_count, no_motion_clips_skipped, clips_validation_failed,
                    clipVars, pipeVars, configVars, rngVars, decisionVars,
                    reproVars, asyncVars, pureVars, v4l2Vars >>

\* save_clip returns; the saved counter of the clip's type is incremented
SaveClip ==
    /\ pc = "save"
    /\ save_clip_returns
    /\ IF reason = Some("motion")
       THEN /\ motion_clips_saved' = motion_clips_saved + 1
            /\ UNCHANGED no_motion_clips_saved
       ELSE /\ no_motion_clips_saved' = no_motion_clips_saved + 1
            /\ UNCHANGED motion_clips_saved
    /\ pc' = "loop"
    /\ UNCHANGED << clip_count, no_motion_clips_skipped, clips_validation_failed,
                    clipVars, pipeVars, configVars, rngVars, decisionVars,
                    reproVars, asyncVars, pureVars, v4l2Vars >>

\* A mutant of SaveClipRaises: the exception leaves capture_continuous, whose
\* finally clause stops the pipeline.
SaveClipRaisesPropagates ==
    /\ pc = "save"
    /\ pc' = "stopped"
    /\ pipeline_running' = FALSE
    /\ pipeline_stops' = pipeline_stops + 1
    /\ saves_raised' = saves_raised + 1
    /\ UNCHANGED << warmup_i, warmup_timeouts, interrupted, statVars, clipVars,
                    configVars, rngVars, decisionVars, saves_motion,
                    saves_no_motion, reproVars, asyncVars, pureVars, v4l2Vars >>

\* A mutant of SaveClipRaises: the saved counter was incremented before the call.
SaveClipRaisesCounted ==
    /\ pc = "save"
    /\ saves_raised' = saves_raised + 1
    /\ IF reason = Some("motion")
       THEN /\ motion_clips_saved' = motion_clips_saved + 1
            /\ UNCHANGED no_motion_clips_saved
       ELSE /\ no_motion_clips_saved' = no_motion_clips_saved + 1
            /\ UNCHANGED motion_clips_saved
    /\ pc' = "loop"
    /\ UNCHANGED << clip_count, no_motion_clips_skipped, clips_validation_failed,
                    clipVars, pipeVars, configVars, rngVars, decisionVars,
                    saves_motion, saves_no_motion, reproVars, asyncVars,
                    pureVars, v4l2Vars >>

\* save_clip raises: the error is printed and the loop continues
SaveClipRaises ==
    /\ pc = "save"
    /\ saves_raised' = saves_raised + 1
    /\ pc' = "loop"
    /\ UNCHANGED << statVars, clipVars, pipeVars, configVars, rngVars,
                    decisionVars, saves_motion, saves_no_motion, reproVars,
                    asyncVars, pureVars, v4l2Vars >>

\* KeyboardInterrupt inside capture_continuous: final statistics, then the
\* finally clause stops the pipeline and the function returns
StopCapture ==
    /\ pc \in { "loop", "acquire", "gate", "validate", "classify", "sample", "save" }
    /\ interrupted' = TRUE
    /\ pc' = "stopped"
    /\ pipeline_running' = FALSE
    /\ pipeline_stops' = pipeline_stops + 1
    /\ depth_frames' = << >>
    /\ color_frames' = << >>
    /\ timestamps' = << >>
    /\ frames_received' = 0
    /\ frame_misses' = 0
    /\ consecutive_failures' = 0
    /\ has_motion_result' = Unset
    /\ should_save' = Unset
    /\ reason' = Unset
    /\ UNCHANGED << warmup_i, warmup_timeouts, statVars, configVars, rngVars,
                    saveVars, reproVars, asyncVars, pureVars, v4l2Vars >>

Next ==
    \/ StartPipeline
    \/ StartPipelineFails
    \/ WarmupFrame
    \/ WarmupTimeout
    \/ ClipStart
    \/ AcquireFrame
    \/ AcquireIncomplete
    \/ AcquireTimeout
    \/ PostLoopGate
    \/ ValidateClip
    \/ CheckMotion
    \/ SampleClip
    \/ SaveClip
    \/ SaveClipRaises
    \/ StopCapture

Spec == Init /\ [][Next]_vars

\* ------------------------------------------- sampling reproducibility
\* random_seed arguments: << >> is None, which leaves the generator seeded
\* from the system's entropy, << n >> is the seed n.
Seeds == { << >> } \cup { << n >> : n \in 0 .. RngMod }

\* A mutant of construct_rng: the seed is not applied.
construct_rng_unseeded(seed, entropy) == entropy

\* __init__: random.seed(random_seed) if a seed is given
construct_rng(seed, entropy) ==
    IF seed # << >> THEN random_seed_state(seed[1]) ELSE entropy

\* what one process does with one clip, by the stage that ends it: a clip the
\* post-loop gate or validate_clip rejects never reaches should_save_clip
process_clip(run, kind) ==
    IF kind \in { "gate_rejected", "invalid" }
    THEN run
    ELSE LET d == should_save_clip(kind = "motion", << 0, 1 >>, run.rng)
         IN  [ rng |-> d.rng,
               outcomes |-> Append(run.outcomes, << d.should_save, d.reason >>) ]

\* two processes are constructed with the same arguments
ReproConstruct ==
    /\ runs = << >>
    /\ \E seed \in Seeds, e1, e2 \in 0 .. RngMod - 1 :
         /\ random_seed' = seed
         /\ runs' = << [ rng |-> construct_rng(seed, e1), outcomes |-> << >> ],
                       [ rng |-> construct_rng(seed, e2), outcomes |-> << >> ] >>
    /\ UNCHANGED << fed, syncVars, asyncVars, pureVars, v4l2Vars >>

\* both processes are fed the same clip
ReproClip ==
    /\ runs # << >>
    /\ Len(fed) < MaxReproClips
    /\ \E kind \in { "gate_rejected", "invalid", "motion", "no_motion" } :
         /\ fed' = Append(fed, kind)
         /\ runs' = [ i \in DOMAIN runs |-> process_clip(runs[i], kind) ]
    /\ UNCHANGED << random_seed, syncVars, asyncVars, pureVars, v4l2Vars >>

NextRepro ==
    \/ ReproConstruct
    \/ ReproClip

\* before the two processes are constructed
InitReproRuns ==
    /\ no_motion_keep_probability \in KeepProbabilities
    /\ rng = 0
    /\ InitConfig /\ InitSync /\ InitRepro /\ InitAsync /\ InitPure /\ InitV4l2

SpecRepro == InitReproRuns /\ [][NextRepro]_vars

\* ------------------------------ capture_video_clip_with_depth.py: main()
\* save_queue = Queue(maxsize=2)
maxsize == 2
\* frames of a clip capture_clip_v4l2 returns: expected_frames, which is 0
\* when the camera reports 0 fps
AsyncClipFrames == { 0, ExpectedFrames }

\* A mutant of queue_full: one item more is let in.
queue_full_off_by_one(q) == Len(q) > maxsize

\* Queue.full(): put_nowait raises Full exactly then
queue_full(q) == Len(q) >= maxsize

\* A mutant of queue_get: the newest item is taken.
queue_get_lifo(q) == << q[Len(q)], SubSeq(q, 1, Len(q) - 1) >>

\* Queue.get(): the oldest item, and the queue without it
queue_get(q) == << Head(q), Tail(q) >>

\* top of `while True`: clip_num += 1
MainLoopTop ==
    /\ main_pc = "loop"
    /\ clip_num < MaxAsyncClips
    /\ clip_num' = clip_num + 1
    /\ main_pc' = "capture"
    /\ UNCHANGED << captured, save_queue, unfinished_tasks, save_thread_running,
                    worker_pc, worker_clip_num, worker_item, submitted, accepted,
                    dropped, writes, log, writes_at_stop, syncVars, reproVars, pureVars, v4l2Vars >>

\* capture_clip_v4l2 returns fresh lists; an empty clip is skipped
CaptureClip ==
    /\ main_pc = "capture"
    /\ \E n \in AsyncClipFrames :
         /\ captured' = Some([ clip |-> clip_num, frames |-> n ])
         /\ main_pc' = IF n = 0 THEN "loop" ELSE "submit"
    /\ UNCHANGED << clip_num, save_queue, unfinished_tasks, save_thread_running,
                    worker_pc, worker_clip_num, worker_item, submitted, accepted,
                    dropped, writes, log, writes_at_stop, syncVars, reproVars, pureVars, v4l2Vars >>

\* A mutant of SubmitClip: a blocking put, which waits for a free slot.
SubmitClipBlocking ==
    /\ main_pc = "submit"
    /\ ~ queue_full(save_queue)
    /\ submitted' = Append(submitted, captured[1].clip)
    /\ save_queue' = Append(save_queue, captured[1])
    /\ unfinished_tasks' = unfinished_tasks + 1
    /\ accepted' = Append(accepted, captured[1].clip)
    /\ log' = log \cup { [ event |-> "queued", clip |-> clip_num ] }
    /\ UNCHANGED dropped
    /\ main_pc' = "loop"
    /\ UNCHANGED << clip_num, captured, save_thread_running, worker_pc,
                    worker_clip_num, worker_item, writes, writes_at_stop, syncVars, reproVars, pureVars, v4l2Vars >>

\* save_queue.put_nowait(...): queued, or Full is raised and the clip dropped
SubmitClip ==
    /\ main_pc = "submit"
    /\ submitted' = Append(submitted, captured[1].clip)
    /\ IF queue_full(save_queue)
       THEN /\ dropped' = dropped \cup { captured[1].clip }
            /\ log' = log \cup { [ event |-> "dropped", clip |-> clip_num ] }
            /\ UNCHANGED << save_queue, unfinished_tasks, accepted >>
       ELSE /\ save_queue' = Append(save_queue, captured[1])
            /\ unfinished_tasks' = unfinished_tasks + 1
            /\ accepted' = Append(accepted, captured[1].clip)
            /\ log' = log \cup { [ event |-> "queued", clip |-> clip_num ] }
            /\ UNCHANGED dropped
    /\ main_pc' = "loop"
    /\ UNCHANGED << clip_num, captured, save_thread_running, worker_pc,
                    worker_clip_num, worker_item, writes, writes_at_stop, syncVars, reproVars, pureVars, v4l2Vars >>

\* KeyboardInterrupt in the capture loop; finally: save_thread_running.clear()
MainInterrupt ==
    /\ main_pc \in { "loop", "capture", "submit" }
    /\ interrupted' = TRUE
    /\ save_thread_running' = FALSE
    /\ writes_at_stop' = Len(writes)
    /\ main_pc' = "join_thread"
    /\ UNCHANGED << clip_num, captured, save_queue, unfinished_tasks,
                    worker_pc, worker_clip_num, worker_item, submitted, accepted,
                    dropped, writes, log, syncButInterrupted, reproVars,
                    pureVars, v4l2Vars >>

\* KeyboardInterrupt while main is inside `try: put_nowait; print` (814-816):
\* the bare `except:` (817) catches it, "dropping clip" is printed and the loop
\* goes on; the clip is in the queue if put_nowait had already stored it
SubmitInterrupted ==
    /\ main_pc = "submit"
    /\ interrupted' = TRUE
    /\ submitted' = Append(submitted, captured[1].clip)
    /\ log' = log \cup { [ event |-> "dropped", clip |-> clip_num ] }
    /\ \/ /\ ~ queue_full(save_queue)
          /\ save_queue' = Append(save_queue, captured[1])
          /\ unfinished_tasks' = unfinished_tasks + 1
          /\ accepted' = Append(accepted, captured[1].clip)
          /\ UNCHANGED dropped
       \/ /\ dropped' = dropped \cup { captured[1].clip }
          /\ UNCHANGED << save_queue, unfinished_tasks, accepted >>
    /\ main_pc' = "loop"
    /\ UNCHANGED << clip_num, captured, save_thread_running, worker_pc,
                    worker_clip_num, worker_item, writes, writes_at_stop,
                    syncButInterrupted, reproVars, pureVars, v4l2Vars >>

\* save_thread.join(timeout=5.0): the worker has ended, or 5 s have passed
MainJoinThread ==
    /\ main_pc = "join_thread"
    /\ main_pc' = "join_queue"
    /\ UNCHANGED << clip_num, captured, save_queue, unfinished_tasks,
                    save_thread_running, worker_pc, worker_clip_num, worker_item,
                    submitted, accepted, dropped, writes, log, writes_at_stop, syncVars, reproVars, pureVars, v4l2Vars >>

\* save_queue.join() returns once every item put has been marked done; main
\* returns and the process, with its daemon worker, ends
MainJoinQueue ==
    /\ main_pc = "join_queue"
    /\ unfinished_tasks = 0
    /\ main_pc' = "done"
    /\ UNCHANGED << clip_num, captured, save_queue, unfinished_tasks,
                    save_thread_running, worker_pc, worker_clip_num, worker_item,
                    submitted, accepted, dropped, writes, log, writes_at_stop, syncVars, reproVars, pureVars, v4l2Vars >>

\* --------------------------------------------------------- save_worker()
\* A mutant of worker_continues: the worker stops as soon as the flag is cleared.
worker_continues_no_drain == save_thread_running

\* the worker's loop condition
worker_continues == save_thread_running \/ save_queue # << >>

\* `while save_thread_running.is_set() or not save_queue.empty()`
WorkerCheck ==
    /\ main_pc # "done"
    /\ worker_pc = "check"
    /\ worker_pc' = IF worker_continues THEN "get" ELSE "exited"
    /\ UNCHANGED << main_pc, clip_num, captured, save_queue, unfinished_tasks,
                    save_thread_running, worker_clip_num, worker_item,
                    submitted, accepted, dropped, writes, log, writes_at_stop, syncVars, reproVars, pureVars, v4l2Vars >>

\* save_queue.get(timeout=0.5) returns an item; clip_num += 1; save_clip begins
WorkerGet ==
    /\ main_pc # "done"
    /\ worker_pc = "get"
    /\ save_queue # << >>
    /\ worker_item' = Some(queue_get(save_queue)[1])
    /\ save_queue' = queue_get(save_queue)[2]
    /\ worker_clip_num' = worker_clip_num + 1
    /\ writes' = Append(writes, [ clip |-> queue_get(save_queue)[1].clip,
                                  result |-> "writing" ])
    /\ worker_pc' = "save"
    /\ UNCHANGED << main_pc, clip_num, captured, unfinished_tasks,
                    save_thread_running, submitted, accepted, dropped, log,
                    writes_at_stop, syncVars, reproVars, pureVars, v4l2Vars >>

\* save_queue.get(timeout=0.5) raises Empty; `except: pass`
WorkerGetTimeout ==
    /\ main_pc # "done"
    /\ worker_pc = "get"
    /\ save_queue = << >>
    /\ worker_pc' = "check"
    /\ UNCHANGED << main_pc, clip_num, captured, save_queue, unfinished_tasks,
                    save_thread_running, worker_clip_num, worker_item,
                    submitted, accepted, dropped, writes, log, writes_at_stop, syncVars, reproVars, pureVars, v4l2Vars >>

\* save_clip returns; "saved" is printed; save_queue.task_done()
WorkerSaved ==
    /\ main_pc # "done"
    /\ worker_pc = "save"
    /\ writes' = [ writes EXCEPT ![Len(writes)].result = "saved" ]
    /\ log' = log \cup { [ event |-> "saved", clip |-> worker_clip_num ] }
    /\ unfinished_tasks' = unfinished_tasks - 1
    /\ worker_pc' = "check"
    /\ UNCHANGED << main_pc, clip_num, captured, save_queue, save_thread_running,
                    worker_clip_num, worker_item, submitted, accepted, dropped,
                    writes_at_stop, syncVars, reproVars, pureVars, v4l2Vars >>

\* save_clip raises; `except: pass`: nothing is printed, task_done is skipped
WorkerSaveRaises ==
    /\ main_pc # "done"
    /\ worker_pc = "save"
    /\ writes' = [ writes EXCEPT ![Len(writes)].result = "failed" ]
    /\ worker_pc' = "check"
    /\ UNCHANGED << main_pc, clip_num, captured, save_queue, unfinished_tasks,
                    save_thread_running, worker_clip_num, worker_item, submitted, accepted,
                    dropped, log, writes_at_stop, syncVars, reproVars, pureVars, v4l2Vars >>

MainNext ==
    \/ MainLoopTop
    \/ CaptureClip
    \/ SubmitClip
    \/ MainInterrupt
    \/ MainJoinThread
    \/ MainJoinQueue

WorkerNext ==
    \/ WorkerCheck
    \/ WorkerGet
    \/ WorkerGetTimeout
    \/ WorkerSaved
    \/ WorkerSaveRaises

NextAsync == MainNext \/ WorkerNext

\* main() has created the save queue and started the worker
InitMain ==
    /\ no_motion_keep_probability = 0
    /\ rng = 0
    /\ InitConfig /\ InitSync /\ InitRepro /\ InitAsync /\ InitPure /\ InitV4l2

SpecAsync == InitMain /\ [][NextAsync]_vars

\* the worker thread is scheduled as long as the process lives, and a
\* save_clip call returns or raises
SpecAsyncFair == SpecAsync /\ WF_vars(WorkerNext)

\* The shutdown runs too: save_thread.join(timeout=5.0) returns after at most
\* 5 s, and save_queue.join() returns when no task is unfinished.
SpecAsyncShutdownFair ==
    /\ SpecAsync
    /\ WF_vars(WorkerNext)
    /\ WF_vars(MainJoinThread)
    /\ WF_vars(MainJoinQueue)

\* main() and save_worker() with the stop signal delivered at any point of the
\* capture loop, the try block around put_nowait included
NextAsyncSignal == NextAsync \/ SubmitInterrupted

SpecAsyncSignal == InitMain /\ [][NextAsyncSignal]_vars

\* ------------------------ calculate_motion, has_motion, validate_clip alone
\* One call of one method on an instance, for every argument of a bounded set.
\* depth readings of a pixel: the sentinel, and readings 100 and 200 mm apart
PurePixels == { 0, 500, 600, 700 }
\* every depth frame of two pixels
PixelFrames == { << a, b >> : a, b \in PurePixels }
\* the frames of a clip: no, half and full depth coverage, still and moved
PureFrameSet == { << 0, 0 >>, << 500, 0 >>, << 500, 500 >>, << 500, 700 >> }
PureClips == UNION { [ 1 .. n -> PureFrameSet ] : n \in 0 .. PureMaxFrames }
PureColorLists == { [ i \in 1 .. n |-> "bgr" ] : n \in 0 .. PureMaxFrames }
\* motion_pixel_percent arguments of the constructor
PureThresholds == { << MotionPixelPercentNum, MotionPixelPercentDen >>,
                    << 1, 4 >>, << 1, 2 >> }

\* the instance is constructed and the arguments of the call are chosen
InitCall ==
    /\ no_motion_keep_probability = 0
    /\ rng = 0
    /\ InitSync /\ InitRepro /\ InitAsync /\ InitV4l2
    /\ ret_calculate_motion = Unset
    /\ ret_has_motion = Unset
    /\ ret_validate_clip = Unset
    /\ \/ /\ call = "calculate_motion"
          /\ arg_frames \in [ 1 .. 2 -> PixelFrames ]
          /\ arg_color = << >>
          /\ arg_expected = 0
          /\ InitConfig
       \/ /\ call = "has_motion"
          /\ arg_frames \in PureClips
          /\ arg_color = << >>
          /\ arg_expected = 0
          /\ motion_pixel_percent \in PureThresholds
       \/ /\ call = "validate_clip"
          /\ arg_frames \in PureClips
          /\ arg_color \in PureColorLists
          /\ arg_expected \in 0 .. PureMaxFrames
          /\ InitConfig

\* self.calculate_motion(depth_frame_1, depth_frame_2) returns
CallCalculateMotion ==
    /\ call = "calculate_motion"
    /\ ret_calculate_motion = Unset
    /\ ret_calculate_motion' = Some(calculate_motion(arg_frames[1], arg_frames[2]))
    /\ UNCHANGED << call, arg_frames, arg_color, arg_expected, ret_has_motion,
                    ret_validate_clip, syncVars, reproVars, asyncVars, v4l2Vars >>

\* self.has_motion(frames) returns
CallHasMotion ==
    /\ call = "has_motion"
    /\ ret_has_motion = Unset
    /\ ret_has_motion' = Some(has_motion(arg_frames))
    /\ UNCHANGED << call, arg_frames, arg_color, arg_expected,
                    ret_calculate_motion, ret_validate_clip, syncVars,
                    reproVars, asyncVars, v4l2Vars >>

\* self.validate_clip(depth_frames, color_frames, expected_frames) returns
CallValidateClip ==
    /\ call = "validate_clip"
    /\ ret_validate_clip = Unset
    /\ ret_validate_clip' = Some(validate_clip(arg_frames, arg_color, arg_expected))
    /\ UNCHANGED << call, arg_frames, arg_color, arg_expected,
                    ret_calculate_motion, ret_has_motion, syncVars, reproVars,
                    asyncVars, v4l2Vars >>

NextPure ==
    \/ CallCalculateMotion
    \/ CallHasMotion
    \/ CallValidateClip

SpecPure == InitCall /\ [][NextPure]_vars

\* =====================================================================
\* Properties of the synchronous pipeline (Spec)
\* =====================================================================

\* the step that runs should_save_clip and its branch for the clip in hand
SampleStep == pc = "sample" /\ pc' \in { "save", "loop" }

\* C1: a clip that passed the post-loop gate and validate_clip and for which
\* has_motion returned true gets (True, "motion") from should_save_clip, for
\* every no_motion_keep_probability and every state of the random source; the
\* loop goes on to save_clip with clip_type "motion", and neither the sampling
\* step nor the save counts the clip in no_motion_clips_skipped.
C1_MotionAlwaysSaved ==
    [][ /\ (SampleStep /\ has_motion_result = Some(TRUE))
           => /\ should_save' = Some(TRUE)
              /\ reason' = Some("motion")
              /\ pc' = "save"
              /\ clip_type' = "motion"
              /\ no_motion_clips_skipped' = no_motion_clips_skipped
        /\ (pc = "save" /\ has_motion_result = Some(TRUE))
           => /\ reason = Some("motion")
              /\ no_motion_clips_skipped' = no_motion_clips_skipped ]_vars

\* C1 witness: a motion clip is about to be saved although the keep
\* probability is 0.
C1_Witness ==
    /\ pc = "save"
    /\ has_motion_result = Some(TRUE)
    /\ reason = Some("motion")
    /\ no_motion_keep_probability = 0

\* C2: for a clip with has_motion = false, should_save_clip draws exactly one
\* sample r and returns (True, "no_motion_sampled") iff
\* r < no_motion_keep_probability, otherwise (False, "no_motion_skipped"); with
\* probability 0 the clip is skipped and save_clip is not reached.
C2_NoMotionSampled ==
    [][ (SampleStep /\ has_motion_result = Some(FALSE))
        => /\ rng_draws' = rng_draws + 1
           /\ rng' = random_advance(rng)
           /\ IF random_sample(rng) < no_motion_keep_probability
              THEN /\ should_save' = Some(TRUE)
                   /\ reason' = Some("no_motion_sampled")
                   /\ pc' = "save"
                   /\ no_motion_clips_skipped' = no_motion_clips_skipped
              ELSE /\ should_save' = Some(FALSE)
                   /\ reason' = Some("no_motion_skipped")
                   /\ pc' = "loop"
                   /\ no_motion_clips_skipped' = no_motion_clips_skipped + 1
           /\ (no_motion_keep_probability = 0 => pc' = "loop") ]_vars

\* C2 witness: a no-motion clip has just been skipped under probability 0,
\* after one draw.
C2_Witness ==
    /\ pc = "loop"
    /\ no_motion_keep_probability = 0
    /\ reason = Some("no_motion_skipped")
    /\ has_motion_result = Some(FALSE)
    /\ should_save = Some(FALSE)
    /\ no_motion_clips_skipped = 1
    /\ rng_draws = 1

\* C4: during the acquisition of a clip frame_misses is the number of failed
\* frame requests in a row (consecutive_failures); the acquisition goes on
\* while that number is at most max_frame_misses and aborts on the
\* (max_frame_misses + 1)-th; a clip whose acquisition ended without such a
\* run holds all its frames.
C4_MissCounter ==
    /\ pc \in { "acquire", "gate" } => frame_misses = consecutive_failures
    /\ pc = "acquire" => consecutive_failures <= max_frame_misses
    /\ pc = "gate" =>
         IF consecutive_failures > max_frame_misses
         THEN consecutive_failures = max_frame_misses + 1
              /\ frames_received < expected_frames
         ELSE /\ consecutive_failures = 0
              /\ frames_received = expected_frames
              /\ ~ gate_rejects

\* C4 witness: the acquisition was aborted by max_frame_misses + 1 misses in a
\* row that followed a stored pair.
C4_Witness ==
    /\ pc = "gate"
    /\ frames_received > 0
    /\ frame_misses = max_frame_misses + 1

\* the clip in hand was aborted by misses or is short of frames
MissAbortOrShortfall ==
    \/ consecutive_failures > max_frame_misses
    \/ frames_received * MinFramesRatioDen < expected_frames * MinFramesRatioNum

\* C5: a clip whose acquisition ended in a miss-abort or short of
\* expected_frames * min_frames_ratio frames is discarded at the post-loop
\* gate: clips_validation_failed grows by 1, the loop returns to its top
\* without validate_clip, has_motion or should_save_clip, no sample is drawn,
\* and the saved and skipped counters stay.
C5_GateDiscards ==
    [][ (pc = "gate" /\ MissAbortOrShortfall /\ pc' \notin { "gate", "stopped" })
        => /\ pc' = "loop"
           /\ clips_validation_failed' = clips_validation_failed + 1
           /\ UNCHANGED << rng, rng_draws, decisionVars, clip_count,
                           motion_clips_saved, no_motion_clips_saved,
                           no_motion_clips_skipped >> ]_vars

\* C5 witness: the first clip was discarded after max_frame_misses + 1
\* timeouts in a row, with nothing drawn, saved or skipped.
C5_Witness ==
    /\ pc = "loop"
    /\ clip_count = 1
    /\ frame_misses = max_frame_misses + 1
    /\ frames_received = 0
    /\ clips_validation_failed = 1
    /\ rng_draws = 0
    /\ should_save = Unset
    /\ motion_clips_saved + no_motion_clips_saved + no_motion_clips_skipped = 0

\* =====================================================================
\* Sampling reproducibility (SpecRepro)
\* =====================================================================

Range(q) == { q[i] : i \in DOMAIN q }
Min(a, b) == IF a < b THEN a ELSE b
\* clips the worker has taken from the queue
Dequeued == { writes[i].clip : i \in DOMAIN writes }
\* clips waiting in the queue
Queued == { save_queue[i].clip : i \in DOMAIN save_queue }

\* C6: the submission of a captured clip never blocks the capture loop:
\* whatever the worker is doing, put_nowait can be taken at once; it enqueues
\* the clip when the queue is not full, and otherwise leaves the queue as it
\* is and drops the clip; either way the loop is back at its top.
C6_SubmitNeverBlocks ==
    /\ [](main_pc = "submit" => ENABLED SubmitClip)
    /\ [][ (main_pc = "submit" /\ main_pc' \notin { "submit", "join_thread" })
           => /\ main_pc' = "loop"
              /\ IF Len(save_queue) >= maxsize
                 THEN /\ save_queue' = save_queue
                      /\ captured[1].clip \in dropped'
                      /\ captured[1].clip \notin Range(accepted')
                 ELSE /\ save_queue' = Append(save_queue, captured[1])
                      /\ captured[1].clip \notin dropped' ]_vars

\* C6 witness: the clip just submitted was dropped on a full queue while the
\* worker was in the middle of a write, and the loop is at its top again.
C6_Witness ==
    /\ main_pc = "loop"
    /\ worker_pc = "save"
    /\ Len(save_queue) = maxsize
    /\ clip_num \in dropped
    /\ submitted # << >>
    /\ submitted[Len(submitted)] = clip_num

\* C7: the queue never holds more than maxsize clips; a dropped clip is never
\* queued or handed to the worker; and while the worker has dequeued nothing,
\* exactly the first maxsize submissions are accepted and the rest dropped.
C7_Backpressure ==
    /\ Len(save_queue) <= maxsize
    /\ dropped \cap (Queued \cup Dequeued) = { }
    /\ writes = << >>
       => /\ accepted = SubSeq(submitted, 1, Min(Len(submitted), maxsize))
          /\ dropped = { submitted[i] : i \in maxsize + 1 .. Len(submitted) }

\* C7 witness: more than maxsize clips were submitted while the worker took
\* nothing: maxsize are queued, the others dropped.
C7_Witness ==
    /\ writes = << >>
    /\ Len(submitted) = maxsize + 2
    /\ Len(accepted) = maxsize
    /\ Cardinality(dropped) = 2

\* C8: the worker writes the accepted clips in the order of their acceptance,
\* one at a time: the writes started so far are a prefix of the accepted
\* clips, and every write but the latest has ended.
C8_Fifo ==
    /\ Len(writes) <= Len(accepted)
    /\ \A i \in DOMAIN writes : writes[i].clip = accepted[i]
    /\ \A i \in DOMAIN writes : i < Len(writes) => writes[i].result # "writing"

\* C8 witness: the second accepted clip is being written, after the first,
\* while a third waits in the queue.
C8_Witness ==
    /\ Len(writes) = 2
    /\ writes[2].result = "writing"
    /\ Len(accepted) >= 3
    /\ save_queue # << >>

\* C9: the worker exits only after the stop signal, with the queue empty and
\* every accepted clip dequeued and its write ended; when shutdown has
\* finished no accepted clip is queued, none is in the middle of its write,
\* and every accepted clip was written.  After the stop signal the worker
\* does get there: it exits, unless the process ends first (which takes the
\* queue's join, hence every accepted clip written).
Drained ==
    /\ worker_pc = "exited"
       => /\ ~ save_thread_running
          /\ save_queue = << >>
          /\ Len(writes) = Len(accepted)
          /\ \A i \in DOMAIN writes : writes[i].result # "writing"
    /\ main_pc = "done"
       => /\ save_queue = << >>
          /\ worker_pc # "save"
          /\ Len(writes) = Len(accepted)
          /\ \A i \in DOMAIN writes : writes[i].result = "saved"

C9_DrainOnShutdown ==
    /\ []Drained
    /\ (~ save_thread_running) ~> (worker_pc = "exited" \/ main_pc = "done")

\* C9 witness: two clips were still to be written at the stop signal; the
\* worker wrote both and exited, and shutdown finished.
C9_Witness ==
    /\ main_pc = "done"
    /\ worker_pc = "exited"
    /\ Len(writes) >= writes_at_stop + 2

\* C10: a write that failed with an exception is logged with the number of
\* the clip that failed, and the worker is not ended by it.
C10_WriteFailureLogged ==
    /\ \A i \in DOMAIN writes :
         writes[i].result = "failed"
         => \E l \in log : l.event = "save_failed" /\ l.clip = writes[i].clip
    /\ worker_pc = "exited" => ~ save_thread_running /\ save_queue = << >>

\* =====================================================================
\* Properties of the pure methods (SpecPure)
\* =====================================================================

\* the motion scores of the consecutive pairs of a clip
PairScores(frames) ==
    [ i \in 1 .. Len(frames) - 1 |-> calculate_motion(frames[i], frames[i + 1]) ]

\* their mean, for a clip of two frames or more
MeanScore(frames) == RatDivInt(RatSum(PairScores(frames)), Len(frames) - 1)

RatEq(a, b) == a[1] * b[2] = b[1] * a[2]

\* C11: has_motion decides by strict inequality: it returns true exactly when
\* the clip has at least one pair of frames and the mean of the pairwise
\* motion scores is greater than motion_pixel_percent; a clip whose pairwise
\* scores are all below the threshold yields false, and so does a clip whose
\* mean score equals the threshold.
C11_StrictThreshold ==
    (call = "has_motion" /\ ret_has_motion # Unset) =>
        LET result == ret_has_motion[1][1]
        IN  IF Len(arg_frames) < 2
            THEN result = FALSE
            ELSE /\ result = RatLess(motion_pixel_percent, MeanScore(arg_frames))
                 /\ (\A i \in DOMAIN PairScores(arg_frames) :
                        RatLess(PairScores(arg_frames)[i], motion_pixel_percent))
                    => result = FALSE
                 /\ RatEq(MeanScore(arg_frames), motion_pixel_percent)
                    => result = FALSE
                 /\ RatEq(ret_has_motion[1][2], MeanScore(arg_frames))

\* has_motion has returned false for a clip whose mean score equals the threshold
C11_Witness ==
    /\ call = "has_motion"
    /\ ret_has_motion # Unset
    /\ Len(arg_frames) >= 2
    /\ RatEq(MeanScore(arg_frames), motion_pixel_percent)
    /\ ret_has_motion[1][1] = FALSE

\* pixels that hold a reading in both frames of the call
ValidInBoth ==
    { i \in DOMAIN arg_frames[1] : arg_frames[1][i] # 0 /\ arg_frames[2][i] # 0 }

\* of those, the pixels whose readings are more than motion_threshold apart
MovedPixels ==
    { i \in ValidInBoth :
        \/ arg_frames[2][i] - arg_frames[1][i] > motion_threshold
        \/ arg_frames[1][i] - arg_frames[2][i] > motion_threshold }

\* C12: calculate_motion returns 0 when no pixel is valid (> 0) in both frames,
\* without dividing by zero; otherwise it returns the number of pixels valid in
\* both frames whose depths differ by more than motion_threshold, divided by
\* the number of pixels valid in both frames; a pixel that is the sentinel 0 in
\* either frame is counted in neither number.
C12_MotionScore ==
    (call = "calculate_motion" /\ ret_calculate_motion # Unset) =>
        LET score == ret_calculate_motion[1]
        IN  /\ score[2] > 0
            /\ IF ValidInBoth = { }
               THEN score[1] = 0
               ELSE score = << Cardinality(MovedPixels), Cardinality(ValidInBoth) >>

\* calculate_motion has returned for two frames with one pixel that is valid in
\* both and one that is the sentinel in the first frame only and far from it in
\* the second
C12_Witness ==
    /\ call = "calculate_motion"
    /\ ret_calculate_motion # Unset
    /\ ValidInBoth # { }
    /\ \E i \in DOMAIN arg_frames[1] :
         arg_frames[1][i] = 0 /\ arg_frames[2][i] > motion_threshold
    /\ ret_calculate_motion[1][1] = 0

\* C13: validate_clip rejects a clip for insufficient frames exactly when
\* len(depth_frames) < expected_frames * min_frames_ratio: a clip with one frame
\* fewer than expected_frames * min_frames_ratio is invalid, and a clip with
\* exactly that many frames, as many color frames and sufficient depth coverage
\* is valid.
C13_FrameCountBoundary ==
    (call = "validate_clip" /\ ret_validate_clip # Unset) =>
        LET actual_frames == Len(arg_frames)
            result == ret_validate_clip[1]
        IN  /\ (result = << FALSE, "Insufficient frames" >>)
                  <=> (actual_frames * MinFramesRatioDen
                          < arg_expected * MinFramesRatioNum)
            /\ (actual_frames + 1) * MinFramesRatioDen
                  = arg_expected * MinFramesRatioNum
               => result[1] = FALSE
            /\ ( /\ actual_frames * MinFramesRatioDen
                       = arg_expected * MinFramesRatioNum
                 /\ Len(arg_color) = actual_frames
                 /\ ~ low_coverage(arg_frames) )
               => result = << TRUE, "Valid" >>

\* validate_clip has accepted a clip of exactly expected_frames *
\* min_frames_ratio frames, fewer than expected_frames
C13_Witness ==
    /\ call = "validate_clip"
    /\ ret_validate_clip # Unset
    /\ arg_expected > 0
    /\ Len(arg_frames) * MinFramesRatioDen = arg_expected * MinFramesRatioNum
    /\ ret_validate_clip[1] = << TRUE, "Valid" >>

\* valid depth readings of a clip of equally sized frames, and all its pixels
ClipValidPixels(frames) ==
    Cardinality({ p \in (DOMAIN frames) \X (1 .. 2) : frames[p[1]][p[2]] > 0 })
ClipPixels(frames) == 2 * Len(frames)

\* C18: validate_clip applies its checks in a fixed order and reports the first
\* that fails: insufficient frames, then a depth / color frame count mismatch,
\* then an average valid-depth coverage below 0.30; a clip that fails none is
\* valid, and so is a clip whose coverage is exactly 0.30.
C18_CheckOrder ==
    (call = "validate_clip" /\ ret_validate_clip # Unset) =>
        ret_validate_clip[1] =
            IF Len(arg_frames) * MinFramesRatioDen < arg_expected * MinFramesRatioNum
            THEN << FALSE, "Insufficient frames" >>
            ELSE IF Len(arg_frames) # Len(arg_color)
            THEN << FALSE, "Depth and color frame count mismatch" >>
            ELSE IF ClipValidPixels(arg_frames) * 10 < 3 * ClipPixels(arg_frames)
            THEN << FALSE, "Insufficient depth coverage" >>
            ELSE << TRUE, "Valid" >>

\* validate_clip has accepted a clip whose coverage is exactly 0.30
C18_Witness ==
    /\ call = "validate_clip"
    /\ ret_validate_clip # Unset
    /\ Len(arg_frames) > 0
    /\ ClipValidPixels(arg_frames) * 10 = 3 * ClipPixels(arg_frames)
    /\ ret_validate_clip[1] = << TRUE, "Valid" >>

\* =====================================================================
\* Properties of one clip attempt and of the capture loop (Spec)
\* =====================================================================

\* the order of the stages: acquire, post-loop gate, validate, classify,
\* sample, persist, with the ways out of the gate, validate and sample, and the
\* steps of start_streaming before the first clip
StageOrder ==
    { << "constructed", "warmup" >>, << "constructed", "loop" >>,
      << "constructed", "exited" >>, << "warmup", "loop" >>,
      << "loop", "acquire" >>, << "acquire", "gate" >>,
      << "gate", "validate" >>, << "gate", "loop" >>,
      << "validate", "classify" >>, << "validate", "loop" >>,
      << "classify", "sample" >>,
      << "sample", "save" >>, << "sample", "loop" >>,
      << "save", "loop" >> }

\* a step that moves a clip to the next stage was let through by the stage
\* it leaves
LetThrough ==
    /\ (pc = "gate" /\ pc' = "validate") => ~ gate_rejects
    /\ (pc = "validate" /\ pc' = "classify")
          => validate_clip(depth_frames, color_frames, expected_frames)[1]
    /\ (pc = "sample" /\ pc' = "save") => should_save' = Some(TRUE)
    /\ (pc = "save")
          => /\ ~ gate_rejects
             /\ validate_clip(depth_frames, color_frames, expected_frames)[1]
             /\ has_motion_result = Some(has_motion(depth_frames)[1])
             /\ should_save = Some(TRUE)

\* the step ends the clip attempt in hand
EndsAttempt == pc \in { "gate", "validate", "sample", "save" } /\ pc' = "loop"

\* the outcome counters other than c are left alone
OnlyCounts(c) ==
    /\ c \in { "failed", "skipped", "saved" }
    /\ clip_count' = clip_count
    /\ clips_validation_failed' =
          clips_validation_failed + (IF c = "failed" THEN 1 ELSE 0)
    /\ no_motion_clips_skipped' =
          no_motion_clips_skipped + (IF c = "skipped" THEN 1 ELSE 0)
    /\ motion_clips_saved' + no_motion_clips_saved' =
          motion_clips_saved + no_motion_clips_saved + (IF c = "saved" THEN 1 ELSE 0)
    /\ motion_clips_saved' >= motion_clips_saved
    /\ no_motion_clips_saved' >= no_motion_clips_saved

\* the outcomes of a clip attempt the claim lists: discarded by the gate,
\* discarded by validate_clip, not sampled, persisted (the synchronous loop has
\* no save queue to drop a clip from)
ListedOutcome ==
    /\ pc = "gate" => OnlyCounts("failed")
    /\ pc = "validate" => OnlyCounts("failed")
    /\ pc = "sample" => OnlyCounts("skipped")
    /\ pc = "save" => OnlyCounts("saved")

\* C14, as stated: every clip attempt passes the stages in the fixed order,
\* each only if the one before let it through, and ends in exactly one of the
\* outcomes discarded for shortfall or miss-abort, discarded for validation
\* failure, discarded as not sampled, dropped on a full queue, or persisted.
C14_AsStated ==
    [][ /\ pc' # pc => (<< pc, pc' >> \in StageOrder \/ pc' = "stopped")
        /\ LetThrough
        /\ EndsAttempt => ListedOutcome ]_vars

\* C14, amended: every clip attempt passes the stages acquire, post-loop gate,
\* validate, classify, sample, persist in this order, each only if the one
\* before let it through, and, unless the stop signal cuts it short, ends in
\* exactly one outcome: discarded by the gate, discarded by validate_clip, not
\* sampled, persisted, or failed while being persisted (save_clip raised: no
\* counter changes); no clip reaches save_clip without having passed the gate
\* and validate_clip, been classified and been accepted by should_save_clip.
C14_StageOrder ==
    [][ /\ pc' # pc => (<< pc, pc' >> \in StageOrder \/ pc' = "stopped")
        /\ LetThrough
        /\ EndsAttempt =>
             \/ ListedOutcome
             \/ pc = "save" /\ UNCHANGED statVars ]_vars

\* a clip has gone through every stage and has been persisted
C14_Witness ==
    /\ pc = "loop"
    /\ should_save = Some(TRUE)
    /\ motion_clips_saved + no_motion_clips_saved = clip_count
    /\ clip_count > 0

\* positions of run() inside the `while True` of capture_continuous
CapturePcs == { "loop", "acquire", "gate", "validate", "classify", "sample", "save" }

\* the step is a clip-level failure: the gate rejects the clip (miss-abort or
\* shortfall), validate_clip rejects it, or save_clip raises
ClipFailure ==
    /\ ~ interrupted'
    /\ \/ pc = "gate" /\ gate_rejects
       \/ pc = "validate"
            /\ ~ validate_clip(depth_frames, color_frames, expected_frames)[1]
       \/ pc = "save" /\ UNCHANGED << motion_clips_saved, no_motion_clips_saved >>

\* C15: after a clip-level failure (miss-abort, shortfall, validation failure,
\* exception while saving) capture_continuous is back at the top of its loop
\* with the frame source running, where the next clip attempt can start; once
\* the frame source has started, the loop is left only by the stop signal.
C15_LoopContinues ==
    /\ [][ /\ ClipFailure => (pc' = "loop" /\ pipeline_running')
           /\ (pc \in CapturePcs /\ pc' \notin CapturePcs) => interrupted' ]_vars
    /\ [](pc = "loop" => (pipeline_running /\ (clip_count < MaxClips => ENABLED ClipStart)))

\* the first clip of the session failed and the second is being acquired
C15_Witness ==
    /\ pc = "acquire"
    /\ clip_count = 2
    /\ motion_clips_saved + no_motion_clips_saved + no_motion_clips_skipped = 0
    /\ frames_received > 0

\* =====================================================================
\* Properties of the stop signal and of the drop statistics
\* (SpecAsyncSignal, SpecAsync)
\* =====================================================================

\* C16: on KeyboardInterrupt the capture loop of main() starts no new clip:
\* the step that delivers the signal clears save_thread_running and takes main
\* to the join of the worker, after the signal clip_num never changes, and main
\* waits for the pending saves only with the flag cleared.
C16_StopSignal ==
    /\ [][ (interrupted' /\ ~ interrupted)
              => (main_pc' = "join_thread" /\ ~ save_thread_running') ]_vars
    /\ [][ interrupted => clip_num' = clip_num ]_vars
    /\ [](main_pc \in { "join_queue", "done" } => ~ save_thread_running)

\* the statistics of a run of main(): what its finally clause reports
run_statistics == [ total_clips_captured |-> clip_num ]

\* C17: every clip dropped on a full save queue is counted: on each drop one
\* of the run's statistics increases by exactly 1.
C17_DropsCounted ==
    [][ dropped' # dropped
          => \E k \in DOMAIN run_statistics :
               run_statistics'[k] = run_statistics[k] + 1 ]_vars

\* =====================================================================
\* Properties of acquisition and of the warmup (Spec)
\* =====================================================================

\* C19: the three lists of the clip in hand always have the same length,
\* frames_received, which never exceeds expected_frames; the acquisition loop
\* runs only while frames_received < expected_frames, and it is left either
\* normally, with exactly expected_frames frames and no pending miss, or by the
\* miss-abort.
C19_ClipLengths ==
    /\ Len(depth_frames) = frames_received
    /\ Len(color_frames) = frames_received
    /\ Len(timestamps) = frames_received
    /\ frames_received <= expected_frames
    /\ pc = "acquire" => (frames_received < expected_frames
                          /\ frame_misses <= max_frame_misses)
    /\ pc = "gate" => (frames_received = expected_frames
                          <=> ~ (frame_misses > max_frame_misses))
    /\ (pc = "gate" /\ frames_received = expected_frames) => frame_misses = 0

\* the acquisition of the second clip has ended normally
C19_Witness ==
    /\ pc = "gate"
    /\ frames_received = expected_frames
    /\ Len(depth_frames) = expected_frames
    /\ clip_count = 2

\* C20: the warmup runs before the first clip and makes warmup_frames frame
\* requests; every pair that arrives is discarded, none is added to a clip; a
\* request that times out is logged and skipped, and the warmup goes on; each
\* iteration advances the loop index, which is bounded by warmup_frames, and an
\* iteration can always be taken, so the warmup terminates; no statistics
\* counter changes during it.
C20_Warmup ==
    /\ [][ pc = "warmup"
             => /\ warmup_i' = warmup_i + 1
                /\ warmup_timeouts' \in { warmup_timeouts, warmup_timeouts + 1 }
                /\ pc' = IF warmup_i' < WarmupFrames THEN "warmup" ELSE "loop"
                /\ pipeline_running'
                /\ UNCHANGED << statVars, clipVars, decisionVars >> ]_vars
    /\ [](pc = "warmup"
            => /\ warmup_i < WarmupFrames
               /\ ENABLED WarmupFrame
               /\ ENABLED WarmupTimeout
               /\ clip_count = 0
               /\ depth_frames = << >> /\ color_frames = << >> /\ timestamps = << >>)
    /\ [](pc \in CapturePcs
            => (warmup_i = WarmupFrames /\ warmup_timeouts <= warmup_i))

\* the warmup has ended, one of its requests having timed out, and no clip
\* has been started
C20_Witness ==
    /\ pc = "loop"
    /\ clip_count = 0
    /\ warmup_i = WarmupFrames
    /\ warmup_timeouts > 0
    /\ warmup_timeouts < WarmupFrames
    /\ pipeline_running

\* =====================================================================
\* Properties of the clip motion score (SpecPure)
\* =====================================================================

\* pixels of a frame of PixelFrames and PureFrameSet
FramePixels == 1 .. 2

\* the pairs << i, p >> of a clip: pixel p holds a reading in frames i and
\* i + 1, and the two readings are more than motion_threshold apart
MovedInPair(frames, i, p) ==
    /\ frames[i][p] > 0 /\ frames[i + 1][p] > 0
    /\ Abs(frames[i + 1][p] - frames[i][p]) > motion_threshold

ValidInPair(frames, i) ==
    Cardinality({ p \in FramePixels : frames[i][p] > 0 /\ frames[i + 1][p] > 0 })

\* twice the sum of the pairwise scores of a clip, an integer for frames of
\* two pixels: a pair with k valid pixels and m moved ones adds 2 * m / k
RECURSIVE TwicePairSum(_, _)
TwicePairSum(frames, i) ==
    IF i = 0
    THEN 0
    ELSE LET moved == Cardinality({ p \in FramePixels : MovedInPair(frames, i, p) })
             valid == ValidInPair(frames, i)
         IN  (IF valid = 0 THEN 0 ELSE (2 * moved) \div valid)
                + TwicePairSum(frames, i - 1)

\* C21: the score has_motion returns is the arithmetic mean of the
\* len(frames) - 1 pairwise scores of consecutive frames and lies in [0, 1];
\* for a clip of fewer than 2 frames has_motion returns (False, 0.0).
C21_MeanScore ==
    (call = "has_motion" /\ ret_has_motion # Unset) =>
        LET score == ret_has_motion[1][2]
            comparisons == Len(arg_frames) - 1
        IN  /\ score[2] > 0
            /\ 0 <= score[1] /\ score[1] <= score[2]
            /\ IF Len(arg_frames) < 2
               THEN ret_has_motion[1][1] = FALSE /\ score[1] = 0
               ELSE score[1] * 2 * comparisons
                       = TwicePairSum(arg_frames, comparisons) * score[2]

\* has_motion has returned a score strictly between 0 and 1 for a clip of
\* three frames or more
C21_Witness ==
    /\ call = "has_motion"
    /\ ret_has_motion # Unset
    /\ Len(arg_frames) >= 3
    /\ 0 < ret_has_motion[1][2][1]
    /\ ret_has_motion[1][2][1] < ret_has_motion[1][2][2]

\* =====================================================================
\* Properties of the run statistics (Spec)
\* =====================================================================

\* the four outcome counters, and their sum
OutcomeCounters ==
    << clips_validation_failed, motion_clips_saved, no_motion_clips_saved,
       no_motion_clips_skipped >>
OutcomeSum ==
    clips_validation_failed + motion_clips_saved + no_motion_clips_saved
        + no_motion_clips_skipped

\* a clip attempt is under way
InAttempt == pc \in { "acquire", "gate", "validate", "classify", "sample", "save" }

\* C22: no statistics counter ever decreases or is reset; clip_count increases
\* by exactly 1 on the step that begins a clip attempt and on no other; an
\* outcome counter increases only on the step that ends an attempt, by exactly
\* 1, and on such a step the other three are unchanged, so an attempt
\* increases at most one of them.
C22_CountersMonotone ==
    /\ [][ /\ clip_count' \in { clip_count, clip_count + 1 }
           /\ (clip_count' = clip_count + 1) <=> (pc = "loop" /\ InAttempt')
           /\ \A i \in DOMAIN OutcomeCounters :
                OutcomeCounters'[i] \in { OutcomeCounters[i], OutcomeCounters[i] + 1 }
           /\ OutcomeSum' \in { OutcomeSum, OutcomeSum + 1 }
           /\ (OutcomeSum' = OutcomeSum + 1) => (InAttempt /\ pc' = "loop") ]_vars
    /\ [](OutcomeSum + (IF InAttempt THEN 1 ELSE 0) <= clip_count)

\* two clip attempts have ended, one rejected and one saved
C22_Witness ==
    /\ pc = "loop"
    /\ clip_count = 2
    /\ clips_validation_failed = 1
    /\ motion_clips_saved + no_motion_clips_saved = 1

\* C24: every clip that reaches validate_clip inside capture_continuous has
\* exactly expected_frames depth frames and as many color frames (min_frames_ratio
\* is at most 1): the miss-abort is caught by the post-loop gate; so there
\* validate_clip never answers "Insufficient frames" or "Depth and color frame
\* count mismatch", and rejects only for depth coverage.
C24_ValidatorBranches ==
    pc = "validate" =>
        /\ MinFramesRatioNum <= MinFramesRatioDen
        /\ Len(depth_frames) = expected_frames
        /\ Len(color_frames) = expected_frames
        /\ validate_clip(depth_frames, color_frames, expected_frames)
              \in { << TRUE, "Valid" >>, << FALSE, "Insufficient depth coverage" >> }

\* a full clip of too little depth coverage is about to be validated, after a
\* clip that was rejected
C24_Witness ==
    /\ pc = "validate"
    /\ clip_count = 2
    /\ clips_validation_failed = 1
    /\ validate_clip(depth_frames, color_frames, expected_frames)
          = << FALSE, "Insufficient depth coverage" >>

\* C25, as stated: whenever capture_continuous has finished processing a clip,
\* clip_count is the sum of the four outcome counters, also after a clip whose
\* save raised an exception.
C25_AsStated == pc = "loop" => clip_count = OutcomeSum

\* C25, amended: whenever capture_continuous has finished processing a clip,
\* clip_count is the sum of the four outcome counters plus the number of clips
\* whose save raised an exception (such a clip is counted in clip_count and in
\* no outcome counter); while a clip is being processed it is one more.
C25_CountersAddUp ==
    /\ pc = "loop" => clip_count = OutcomeSum + saves_raised
    /\ InAttempt => clip_count = OutcomeSum + saves_raised + 1

\* two clips have been processed: the save of one raised, the other was counted
C25_Witness ==
    /\ pc = "loop"
    /\ clip_count = 2
    /\ saves_raised = 1
    /\ OutcomeSum = 1

\* C29: motion_clips_saved is the number of save_clip calls with clip_type
\* "motion" that returned, and no_motion_clips_saved the number of those with
\* clip_type "no_motion", so their sum is the number of saves that returned; a
\* saved counter changes only on the step on which a save returns, and a save
\* that raises changes no counter.
C29_SavedCounters ==
    /\ [](motion_clips_saved = saves_motion /\ no_motion_clips_saved = saves_no_motion)
    /\ [][ /\ (motion_clips_saved' # motion_clips_saved
                 \/ no_motion_clips_saved' # no_motion_clips_saved)
              => (pc = "save" /\ saves_motion' + saves_no_motion'
                                    = saves_motion + saves_no_motion + 1)
           /\ saves_raised' # saves_raised => UNCHANGED statVars ]_vars

\* a motion clip and a sampled no-motion clip have both been saved
C29_Witness ==
    /\ pc = "loop"
    /\ saves_motion = 1
    /\ saves_no_motion = 1
    /\ motion_clips_saved = 1
    /\ no_motion_clips_saved = 1

\* =====================================================================
\* Properties of the random source in the pipeline (Spec)
\* =====================================================================

\* C28: the random source is advanced only by should_save_clip on a validated
\* clip for which has_motion returned false, by exactly one draw; every other
\* step (warmup, acquisition, gate, validation, classification, a motion clip's
\* decision, saving) leaves it alone; so the generator's state is a function
\* of its state after construction and of the number of no-motion clips
\* sampled so far, and the decision for the k-th of them is the same whatever
\* failed or motion clips came before it.
C28_RngOnlyNoMotion ==
    /\ [][ /\ (rng' # rng \/ rng_draws' # rng_draws)
              => (SampleStep /\ has_motion_result = Some(FALSE))
           /\ (SampleStep /\ has_motion_result = Some(FALSE))
              => /\ rng_draws' = rng_draws + 1
                 /\ should_save' =
                      Some((rng_initial + rng_draws + 1) % RngMod
                              < no_motion_keep_probability)
           /\ (SampleStep /\ has_motion_result = Some(TRUE))
              => (rng' = rng /\ rng_draws' = rng_draws) ]_vars
    /\ [](rng = (rng_initial + rng_draws) % RngMod)

\* a no-motion clip has been sampled after a motion clip that drew nothing
C28_Witness ==
    /\ pc = "loop"
    /\ clip_count = 2
    /\ motion_clips_saved = 1
    /\ has_motion_result = Some(FALSE)
    /\ should_save # Unset
    /\ rng_draws = 1

\* =====================================================================
\* Properties of the save worker's clip numbering (SpecAsync)
\* =====================================================================

C26_ShutdownTerminates ==
    (main_pc = "join_thread") ~> (main_pc = "done")

\* =====================================================================
\* capture_clip_v4l2 with the background depth reader (SpecReader)
\* =====================================================================
\* depth_queue = Queue(maxsize=10)
depth_maxsize == 10
\* the depth frame stored when no drained frame qualified: None
NoDepth == 0

\* everything but the variables of capture_clip_v4l2 and its reader
restVars == << syncVars, reproVars, asyncVars, pureVars, heapVars >>

\* A mutant of newer_depth: frames stamped after the color frame qualify too.
newer_depth_any_time(depth_time, entry_frame_time, entry_latest_time) ==
    depth_time > entry_latest_time

\* `depth_time <= frame_time and depth_time > latest_time`
newer_depth(depth_time, entry_frame_time, entry_latest_time) ==
    depth_time <= entry_frame_time /\ depth_time > entry_latest_time

\* The code only compares times, so a run is determined by the order and the
\* ties of its time.time() calls: a call returns the latest value returned so
\* far or the next one (the clock does not go back).
time_time == { t \in { now, now + 1 } : t >= 1 /\ t <= MaxClock }

\* --------------------------------------------------- depth_reader_thread
\* `while not stop_event.is_set()`
ReaderCheck ==
    /\ reader_pc = "check"
    /\ reader_pc' = IF stop_event THEN "stopped" ELSE "read"
    /\ UNCHANGED << now, depth_queue, stop_event, reader_frame, reader_time,
                    last_put, loopVars, restVars >>

\* read_z16_depth_frame returns a frame, or None and the reader sleeps
ReaderRead ==
    /\ reader_pc = "read"
    /\ \/ /\ reader_frame' = reader_frame + 1
          /\ reader_pc' = "put"
       \/ /\ reader_pc' = "check"
          /\ UNCHANGED reader_frame
    /\ UNCHANGED << now, depth_queue, stop_event, reader_time, last_put,
                    loopVars, restVars >>

\* depth_queue.put_nowait((time.time(), depth_frame)); `except: pass` when the
\* queue is full; time.sleep(0.01), so the reader's next time is a later one
ReaderPut ==
    /\ reader_pc = "put"
    /\ \E t \in time_time :
         /\ t > reader_time
         /\ now' = t
         /\ reader_time' = t
         /\ IF Len(depth_queue) < depth_maxsize
            THEN /\ depth_queue' = Append(depth_queue,
                                          [ time |-> t, data |-> reader_frame ])
                 /\ last_put' = "queued"
            ELSE /\ UNCHANGED depth_queue
                 /\ last_put' = "dropped"
    /\ reader_pc' = "check"
    /\ UNCHANGED << stop_event, reader_frame, loopVars, restVars >>

\* ----------------------------------------------------- capture_clip_v4l2
\* fresh lists; the depth queue is created and the reader thread started
CaptureCall ==
    /\ cap_pc = "call"
    /\ reader_pc' = "check"
    /\ cap_pc' = IF frame_count < V4l2ExpectedFrames THEN "read" ELSE "stop"
    /\ UNCHANGED << now, depth_queue, stop_event, reader_frame, reader_time,
                    last_put, frame_count, frame_time, latest_depth, latest_time,
                    v4l2_color_frames, v4l2_depth_frames, v4l2_timestamps,
                    drained, restVars >>

\* color_cap.read() gives a frame (a read that gives none only sleeps and
\* tries again): a copy is appended with its time, and the drain of the
\* depth queue begins
CaptureColor ==
    /\ cap_pc = "read"
    /\ v4l2_color_frames' = Append(v4l2_color_frames, frame_count + 1)
    /\ \E t \in time_time :
         /\ now' = t
         /\ frame_time' = t
         /\ v4l2_timestamps' = Append(v4l2_timestamps, t)
    /\ latest_depth' = NoDepth
    /\ latest_time' = 0
    /\ drained' = << >>
    /\ cap_pc' = "drain"
    /\ UNCHANGED << depth_queue, readerVars, frame_count, v4l2_depth_frames,
                    restVars >>

\* `while not depth_queue.empty()`: get_nowait() and the comparison
DrainOne ==
    /\ cap_pc = "drain"
    /\ depth_queue # << >>
    /\ depth_queue' = Tail(depth_queue)
    /\ drained' = Append(drained, Head(depth_queue))
    /\ IF newer_depth(Head(depth_queue).time, frame_time, latest_time)
       THEN /\ latest_depth' = Head(depth_queue).data
            /\ latest_time' = Head(depth_queue).time
       ELSE UNCHANGED << latest_depth, latest_time >>
    /\ UNCHANGED << now, readerVars, cap_pc, frame_count, frame_time,
                    v4l2_color_frames, v4l2_depth_frames, v4l2_timestamps,
                    restVars >>

\* the queue is empty: depth_frames.append(latest_depth); frame_count += 1
StoreDepth ==
    /\ cap_pc = "drain"
    /\ depth_queue = << >>
    /\ v4l2_depth_frames' = Append(v4l2_depth_frames, latest_depth)
    /\ frame_count' = frame_count + 1
    /\ cap_pc' = IF frame_count + 1 < V4l2ExpectedFrames THEN "read" ELSE "stop"
    /\ UNCHANGED << now, depth_queue, readerVars, frame_time, latest_depth,
                    latest_time, v4l2_color_frames, v4l2_timestamps, drained,
                    restVars >>

\* stop_event.set(); depth_thread.join(timeout=0.5); the lists are returned
CaptureReturn ==
    /\ cap_pc = "stop"
    /\ stop_event' = TRUE
    /\ cap_pc' = "returned"
    /\ UNCHANGED << now, depth_queue, reader_pc, reader_frame, reader_time,
                    last_put, frame_count, frame_time, latest_depth, latest_time,
                    v4l2_color_frames, v4l2_depth_frames, v4l2_timestamps,
                    drained, restVars >>

NextReader ==
    \/ ReaderCheck
    \/ ReaderRead
    \/ ReaderPut
    \/ CaptureCall
    \/ CaptureColor
    \/ DrainOne
    \/ StoreDepth
    \/ CaptureReturn

\* capture_clip_v4l2 is called with depth_device_path == '/dev/video0'
InitCapture ==
    /\ no_motion_keep_probability = 0
    /\ rng = 0
    /\ InitConfig /\ InitSync /\ InitRepro /\ InitAsync /\ InitPure /\ InitV4l2

SpecReader == InitCapture /\ [][NextReader]_vars

\* ---------------------------------------------------------------------
\* Properties of the depth reader and the drain (SpecReader)
\* ---------------------------------------------------------------------
\* the drained entries this iteration that are not newer than the color frame
Eligible == { i \in DOMAIN drained : drained[i].time <= frame_time }

\* d is None when no drained entry qualifies, else the data of the qualifying
\* entry with the greatest time
LatestEligible(d) ==
    IF Eligible = { }
    THEN d = NoDepth
    ELSE \E i \in Eligible :
           /\ d = drained[i].data
           /\ \A j \in Eligible : drained[j].time <= drained[i].time

\* C30: under every interleaving of the reader thread and the capture loop,
\* the depth frame stored with a color frame is None or the most recently
\* captured of the entries drained at that step whose time is <= the color
\* frame's time; the depth queue never holds more than 10 entries; a put on a
\* full queue drops the frame and the reader goes on (it is never blocked at
\* the put); and depth_frames has the length of color_frames and of
\* timestamps whenever the loop is between two iterations or has returned
\* (inside an iteration the color frame is appended first, and its depth entry
\* by the end of the same iteration).
C30_DepthPairing ==
    /\ [](Len(depth_queue) <= depth_maxsize)
    /\ [](/\ Len(v4l2_timestamps) = Len(v4l2_color_frames)
          /\ cap_pc # "drain" => Len(v4l2_depth_frames) = Len(v4l2_color_frames)
          /\ cap_pc = "drain" => Len(v4l2_depth_frames) + 1 = Len(v4l2_color_frames))
    /\ [][ (cap_pc = "drain" /\ cap_pc' # "drain")
              => \E d \in 0 .. reader_frame :
                   /\ v4l2_depth_frames' = Append(v4l2_depth_frames, d)
                   /\ LatestEligible(d) ]_vars
    /\ [][ (reader_pc = "put" /\ reader_pc' # "put"
               /\ Len(depth_queue) = depth_maxsize)
              => (depth_queue' = depth_queue /\ last_put' = "dropped") ]_vars
    /\ []((reader_pc = "put" /\ reader_time < MaxClock) => ENABLED ReaderPut)

\* the reader has dropped a frame on the full queue, and the capture loop has
\* then stored the newest of the ten frames it drained
C30_Witness ==
    /\ cap_pc = "returned"
    /\ last_put = "dropped"
    /\ v4l2_depth_frames[1] = depth_maxsize
    /\ Len(v4l2_depth_frames) = V4l2ExpectedFrames

\* =====================================================================
\* The objects shared by main(), capture_clip_v4l2 and save_worker (SpecHeap)
\* =====================================================================
\* Objects are numbered as they are created. buffers[1] and buffers[2] are the
\* frame buffers of color_cap and depth_cap, which read() fills; every other
\* object is a frame array or a float made during a capture. A list holds
\* object ids; 0 in a list is None.
ColorBuffer == 1
DepthBuffer == 2

\* everything but the objects
nonHeapVars == << syncVars, reproVars, asyncVars, pureVars, now, depth_queue,
                  readerVars, loopVars >>

\* the values a list's entries have now
Contents(l) ==
    [ i \in DOMAIN lists[l] |->
        IF lists[l][i] = 0 THEN NoDepth ELSE buffers[lists[l][i]] ]

\* the lists of a queued item; depth_frames may be None
ListsOf(item) == { item.color, item.timestamps } \cup
                 (IF item.depth = 0 THEN { } ELSE { item.depth })

\* capture_clip_v4l2 is called: color_frames = [], depth_frames = [],
\* timestamps = [] are new lists; expected_frames = int(duration * fps),
\* which is 0 when the camera reports 0 fps
CallCapture ==
    /\ heap_pc = "loop"
    /\ Len(lists) < 3 * MaxHeapClips
    /\ lists' = lists \o << << >>, << >>, << >> >>
    /\ fn_color_frames' = Len(lists) + 1
    /\ fn_depth_frames' = Len(lists) + 2
    /\ fn_timestamps' = Len(lists) + 3
    /\ fn_expected' \in { 0, V4l2ExpectedFrames }
    /\ heap_pc' = "capture"
    /\ UNCHANGED << buffers, mainVars, clip_queue, worker_clip, frozen,
                    nonHeapVars >>

\* A mutant of StoreFrame: the color frame is appended without .copy().
StoreFrameNoCopy ==
    /\ heap_pc = "capture"
    /\ Len(lists[fn_color_frames]) < fn_expected
    /\ \E color \in 1 .. MaxPixel, depth \in 0 .. MaxPixel :
         LET n == Len(buffers)
             filled == [ buffers EXCEPT ![ColorBuffer] = color,
                                        ![DepthBuffer] =
                                           IF depth = 0 THEN @ ELSE depth ]
         IN  /\ buffers' = filled \o << Len(lists[fn_timestamps]) + 1 >>
                                  \o (IF depth = 0 THEN << >> ELSE << depth >>)
             /\ lists' = [ lists EXCEPT
                  ![fn_color_frames] = Append(@, ColorBuffer),
                  ![fn_timestamps] = Append(@, n + 1),
                  ![fn_depth_frames] =
                     Append(@, IF depth = 0 THEN 0 ELSE n + 2) ]
    /\ UNCHANGED << fnVars, mainVars, heap_pc, clip_queue, worker_clip, frozen,
                    nonHeapVars >>

\* one iteration of the loop with a color frame: color_cap.read() fills the
\* capture's buffer, color_frame.copy() is appended, its time is appended,
\* and depth_cap.read() gives a frame, whose copy or conversion is appended,
\* or none, and None is appended
StoreFrame ==
    /\ heap_pc = "capture"
    /\ Len(lists[fn_color_frames]) < fn_expected
    /\ \E color \in 1 .. MaxPixel, depth \in 0 .. MaxPixel :
         LET n == Len(buffers)
             filled == [ buffers EXCEPT ![ColorBuffer] = color,
                                        ![DepthBuffer] =
                                           IF depth = 0 THEN @ ELSE depth ]
         IN  /\ buffers' = filled \o << color, Len(lists[fn_timestamps]) + 1 >>
                                  \o (IF depth = 0 THEN << >> ELSE << depth >>)
             /\ lists' = [ lists EXCEPT
                  ![fn_color_frames] = Append(@, n + 1),
                  ![fn_timestamps] = Append(@, n + 2),
                  ![fn_depth_frames] =
                     Append(@, IF depth = 0 THEN 0 ELSE n + 3) ]
    /\ UNCHANGED << fnVars, mainVars, heap_pc, clip_queue, worker_clip, frozen,
                    nonHeapVars >>

\* `return color_frames, depth_frames if depth_frames else None, timestamps`;
\* main binds the three and skips a clip without frames
ReturnClip ==
    /\ heap_pc = "capture"
    /\ Len(lists[fn_color_frames]) = fn_expected
    /\ main_color_frames' = fn_color_frames
    /\ main_depth_frames' =
         IF lists[fn_depth_frames] = << >> THEN 0 ELSE fn_depth_frames
    /\ main_timestamps' = fn_timestamps
    /\ heap_pc' = IF lists[fn_color_frames] = << >> THEN "loop" ELSE "submit"
    /\ UNCHANGED << buffers, lists, fnVars, clip_queue, worker_clip, frozen,
                    nonHeapVars >>

\* save_queue.put_nowait((color_frames, depth_frames, timestamps)): the queue
\* takes the references, or is full and the clip is dropped
QueueClip ==
    /\ heap_pc = "submit"
    /\ LET item == [ color |-> main_color_frames, depth |-> main_depth_frames,
                     timestamps |-> main_timestamps ]
       IN  IF queue_full(clip_queue)
           THEN UNCHANGED << clip_queue, frozen >>
           ELSE /\ clip_queue' = Append(clip_queue, item)
                /\ frozen' = frozen \cup
                     { [ list |-> l, contents |-> Contents(l) ] : l \in ListsOf(item) }
    /\ heap_pc' = "loop"
    /\ UNCHANGED << buffers, lists, fnVars, mainVars, worker_clip, nonHeapVars >>

\* save_worker: item = save_queue.get(timeout=0.5); save_clip begins
WorkerTakes ==
    /\ worker_clip = Unset
    /\ clip_queue # << >>
    /\ worker_clip' = Some(queue_get(clip_queue)[1])
    /\ clip_queue' = queue_get(clip_queue)[2]
    /\ UNCHANGED << buffers, lists, fnVars, mainVars, heap_pc, frozen,
                    nonHeapVars >>

\* save_clip has read the frames and returns or raises
WorkerReleases ==
    /\ worker_clip # Unset
    /\ worker_clip' = Unset
    /\ UNCHANGED << buffers, lists, fnVars, mainVars, heap_pc, clip_queue,
                    frozen, nonHeapVars >>

NextHeap ==
    \/ CallCapture
    \/ StoreFrame
    \/ ReturnClip
    \/ QueueClip
    \/ WorkerTakes
    \/ WorkerReleases

\* main() has started the worker and enters its loop
InitObjects ==
    /\ no_motion_keep_probability = 0
    /\ rng = 0
    /\ InitConfig /\ InitSync /\ InitRepro /\ InitAsync /\ InitPure /\ InitV4l2

SpecHeap == InitObjects /\ [][NextHeap]_vars

\* the lists that are or were on the save queue
FrozenLists == { f.list : f \in frozen }

\* C23: once a clip has been put on the save queue, nothing the capture loop
\* does changes its lists or the frames and times in them: each queued list
\* keeps the contents it had when queued; the lists capture_clip_v4l2 fills
\* are new ones, never a queued one, and no object is held by two lists, so
\* the capture loop and the worker share nothing but the queue.
C23_QueuedClipsImmutable ==
    /\ [](\A f \in frozen : Contents(f.list) = f.contents)
    /\ [](heap_pc = "capture"
            => { fn_color_frames, fn_depth_frames, fn_timestamps }
                  \cap FrozenLists = { })
    /\ [](\A l, m \in DOMAIN lists : \A i \in DOMAIN lists[l], j \in DOMAIN lists[m] :
            (lists[l][i] # 0 /\ lists[l][i] = lists[m][j]) => (l = m /\ i = j))
    /\ [](\A l \in DOMAIN lists : \A i \in DOMAIN lists[l] :
            lists[l][i] \notin { ColorBuffer, DepthBuffer })

\* the first clip is on the queue or with the worker while the capture loop
\* has stored the frames of the second, with other pixel values
C23_Witness ==
    /\ heap_pc = "capture"
    /\ fn_color_frames = 4
    /\ Len(lists[4]) = V4l2ExpectedFrames
    /\ 1 \in FrozenLists
    /\ Contents(1) # Contents(4)
    /\ (clip_queue # << >> \/ worker_clip # Unset)
====
